---- MODULE Spec2Model ----
(***************************************************************************)
(* The bytecode generator of rua (src/src/compiler/mod.rs): CodeGen walks  *)
(* the AST of a Lua chunk and emits a tree of function prototypes.         *)
(*                                                                         *)
(* The walk over the root block is the state machine: Compile enters the   *)
(* root function, VisitStat visits one statement of the root block,        *)
(* FinishBlock visits the block's return statement (if any) and assembles  *)
(* the root chunk.  Everything below a statement (expressions, calls,      *)
(* nested function bodies) is computed by the recursive operators          *)
(* visit_expr, visit_function_call, visit_function ... which follow the    *)
(* methods of the same name.                                               *)
(*                                                                         *)
(* The allocators (resource_allocator.rs), the symbol table                *)
(* (symbol_table.rs) and the instruction types (types.rs, opcodes.rs) are  *)
(* not part of the sources at hand; they are modelled from sections 3 and  *)
(* 4 of the specification.                                                 *)
(***************************************************************************)
EXTENDS Integers, Sequences, FiniteSets, TLC

\* ---------------------------------------------------------------- bounds
MaxStats == 2        \* statements in the root block
MaxNum == 2          \* numeric literals are 1 .. MaxNum

\* ------------------------------------------------------------- encodings
NoName == ""         \* reg_alloc.push(None)
NoExpect == -1       \* expect = None; Some(Expect::Reg(r)) is r >= 0
Indeterminate == -1  \* RetExpect::Indeterminate; RetExpect::Num(k) is k >= 0

\* ------------------------------------------------------------------ AST
\* parser/types/mod.rs: Expr, Var, Stat, Block
Num(n) == [k |-> "Num", num |-> n]
Boole(v) == [k |-> "Boole", bool |-> v]
VarName(n) == [vk |-> "Name", name |-> n]
VarReg(r) == [vk |-> "Reg", reg |-> r]
Var(v) == [k |-> "Var", var |-> v]
Name(n) == Var(VarName(n))
BinOp(flag, l, r) == [k |-> "BinOp", flag |-> flag, left |-> l, right |-> r]
UnaryOp(flag, l) == [k |-> "UnaryOp", flag |-> flag, left |-> l]
FunctionDef(paras, va, body) ==
    [k |-> "FunctionDef", paras |-> paras, is_vararg |-> va, body |-> body]
FunctionCall(e, args, va) ==
    [k |-> "FunctionCall", expr |-> e, args |-> args, is_vararg |-> va]
Assign(vars, exprs) == [k |-> "Assign", vars |-> vars, exprs |-> exprs]
AssignLocal(names, exprs) == [k |-> "AssignLocal", names |-> names, exprs |-> exprs]
Ret(exprs) == [k |-> "Ret", exprs |-> exprs]
\* Block { stats, ret: Option<Vec<Expr>> }
Block(stats, has_ret, ret) == [stats |-> stats, has_ret |-> has_ret, ret |-> ret]

\* --------------------------------------------------------- instructions
\* OpMode: iABC(op, A, B, C) | iABx(op, A, Bx) | iAsBx(op, A, sBx) | Label(id)
iABC(op, A, B, C) == [mode |-> "iABC", op |-> op, a |-> A, b |-> B, c |-> C]
iABx(op, A, Bx) == [mode |-> "iABx", op |-> op, a |-> A, b |-> Bx, c |-> 0]
iAsBx(op, A, sBx) == [mode |-> "iAsBx", op |-> op, a |-> A, b |-> sBx, c |-> 0]
Label(id) == [mode |-> "Label", op |-> "LABEL", a |-> 0, b |-> id, c |-> 0]

emit_iABx(instructions, op, A, Bx) == Append(instructions, iABx(op, A, Bx))
\* emit_iABC as it would be if the B and C fields were exchanged
emit_iABC_swapped(instructions, op, A, B, C) == Append(instructions, iABC(op, A, C, B))

emit_iABC(instructions, op, A, B, C) == Append(instructions, iABC(op, A, B, C))
emit_iAsBx(instructions, op, A, sBx) == Append(instructions, iAsBx(op, A, sBx))

\* get_opflag_opname_map(): the arithmetic opcode of a binary operator token
flag_to_op(flag) ==
    CASE flag = "Plus" -> "ADD"
      [] flag = "Minus" -> "SUB"
      [] flag = "Mul" -> "MUL"
      [] flag = "Div" -> "DIV"

ArithFlags == {"Plus", "Minus", "Mul", "Div"}
CmpFlags == {"LESS", "LEQ", "GREATER", "GEQ", "EQ", "NEQ"}

\* ConstType::Real(f64) | ConstType::Str(String)
Real(n) == [t |-> "Real", num |-> n, str |-> ""]
Str(s) == [t |-> "Str", num |-> 0, str |-> s]

\* FunctionChunk::new().  The last three fields are not in the chunk: they
\* keep, for the properties, what the allocator of the function knew when
\* it went out of scope (the named upvalue table, the register names, the
\* log of upvalue reads).
NewFunctionChunk ==
    [upvalue_num |-> 0, para_num |-> 0, is_vararg |-> FALSE, stack_size |-> 0,
     ins_len |-> 0, instructions |-> <<>>, constants |-> <<>>,
     funclist_len |-> 0, function_prototypes |-> <<>>,
     upvalues |-> <<>>, regs |-> <<>>, reads |-> <<>>]

\* ----------------------------------------------------------- allocators
\* ResourceAlloc::new(): the four pools and the upvalue table of one
\* function.  The parent back-reference is the position in cg.allocs: the
\* allocator of the enclosing function is the one below in that stack.
\* reads logs every upvalue read (name, slot returned, descriptor then).
NewResourceAlloc ==
    [reg_alloc |-> <<>>, const_alloc |-> <<>>, function_alloc |-> <<>>,
     label_alloc |-> 0, upvalue_alloc |-> <<>>, reads |-> <<>>]

\* the allocator of the function being compiled (the res_alloc argument)
Cur(cg) == cg.allocs[Len(cg.allocs)]

\* reg_alloc.size()
reg_size(cg) == Len(Cur(cg).reg_alloc)

\* reg_alloc.push(name?): the next free index; the stack grows by one
reg_push(cg, name) ==
    [cg |-> [cg EXCEPT !.allocs[Len(cg.allocs)].reg_alloc = Append(@, name)],
     pos |-> Len(Cur(cg).reg_alloc)]

\* reg_alloc.push_set(name, idx): re-bind an existing slot, no growth
reg_push_set(cg, name, idx) ==
    IF idx < reg_size(cg)
    THEN [cg EXCEPT !.allocs[Len(cg.allocs)].reg_alloc[idx + 1] = name]
    ELSE cg

\* index (0-based) of the first occurrence of v in pool; Len(pool) if absent
IndexOf(pool, v) ==
    IF \E i \in 1..Len(pool) : pool[i] = v
    THEN (CHOOSE i \in 1..Len(pool) :
             pool[i] = v /\ \A j \in 1..(i - 1) : pool[j] # v) - 1
    ELSE Len(pool)

\* const_alloc.push(v): the existing index if v is present, else append
const_push(cg, v) ==
    LET pool == Cur(cg).const_alloc
        at == IndexOf(pool, v) IN
    [cg |-> IF at < Len(pool) THEN cg
            ELSE [cg EXCEPT !.allocs[Len(cg.allocs)].const_alloc = Append(@, v)],
     pos |-> at]

\* function_alloc.push as it would be if it put the chunk in front
function_push_front(cg, chunk) ==
    [cg |-> [cg EXCEPT !.allocs[Len(cg.allocs)].function_alloc = <<chunk>> \o @],
     pos |-> 0]

\* function_alloc.push(chunk): append, the new index
function_push(cg, chunk) ==
    [cg |-> [cg EXCEPT !.allocs[Len(cg.allocs)].function_alloc = Append(@, chunk)],
     pos |-> Len(Cur(cg).function_alloc)]

\* label_alloc.new_label(): a fresh monotonic integer
new_label(cg) ==
    [cg |-> [cg EXCEPT !.allocs[Len(cg.allocs)].label_alloc = @ + 1],
     label |-> Cur(cg).label_alloc]

\* upvalue_alloc.lookup_or_add(name, is_immediate, source_slot) on the
\* allocator at position at: the slot of name, appended when new
UpvalueNames(table) == [i \in 1..Len(table) |-> table[i].name]

lookup_or_add(allocs, at, name, is_immediate, source_slot) ==
    LET table == allocs[at].upvalue_alloc
        slot == IndexOf(UpvalueNames(table), name) IN
    [allocs |-> IF slot < Len(table) THEN allocs
                ELSE [allocs EXCEPT ![at].upvalue_alloc =
                         Append(@, [name |-> name,
                                    is_immediate |-> is_immediate,
                                    source_slot |-> source_slot])],
     slot |-> slot]

\* ResourceAlloc::propagate_upvalue(name, origin_reg, depth) on the
\* allocator at position at: first make the enclosing function hold the
\* upvalue (depth > 1), then insert the descriptor here
RECURSIVE propagate_upvalue(_, _, _, _, _)
propagate_upvalue(allocs, at, name, origin_reg, depth) ==
    IF depth > 1
    THEN LET up == propagate_upvalue(allocs, at - 1, name, origin_reg, depth - 1)
         IN lookup_or_add(up.allocs, at, name, FALSE, up.slot)
    ELSE lookup_or_add(allocs, at, name, TRUE, origin_reg)

\* upvalue_alloc.into_list(): the descriptors in slot order, each the triple
\* (is_immediate, slot_in_enclosing, slot_in_closure)
into_list(table) ==
    [i \in 1..Len(table) |->
        <<table[i].is_immediate, table[i].source_slot, i - 1>>]

\* --------------------------------------------------------- symbol table
\* ScopedSymbolTableBuilder::new(): one frame for the root function, no
\* known global.  A frame maps the names bound in a function to registers.
\* absent is what lookup answers for a name bound nowhere.
EmptyFrame == [n \in {} |-> 0]

NewSymbolTable(absent) == [frames |-> <<EmptyFrame>>, globals |-> {}, absent |-> absent]

initialize_scope(st) == [st EXCEPT !.frames = Append(@, EmptyFrame)]

finalize_scope(st) == [st EXCEPT !.frames = SubSeq(@, 1, Len(@) - 1)]

define_local(st, name, reg) ==
    LET f == st.frames[Len(st.frames)] IN
    [st EXCEPT !.frames[Len(st.frames)] =
        [n \in DOMAIN f \cup {name} |-> IF n = name THEN reg ELSE f[n]]]

define_global(st, name) == [st EXCEPT !.globals = @ \cup {name}]

\* lookup(name): Local in the current frame, UpValue(depth) in the nearest
\* enclosing frame that binds it, Global otherwise
lookup(st, name) ==
    LET n == Len(st.frames)
        hits == {i \in 1..n : name \in DOMAIN st.frames[i]} IN
    IF name \in DOMAIN st.frames[n]
    THEN [scope |-> "Local", depth |-> 0, pos |-> st.frames[n][name]]
    ELSE IF hits # {}
    THEN LET i == CHOOSE i \in hits : \A j \in hits : j <= i IN
         [scope |-> "UpValue", depth |-> n - i, pos |-> st.frames[i][name]]
    ELSE IF name \in st.globals \/ st.absent = "Global"
    THEN [scope |-> "Global", depth |-> 0, pos |-> 0]
    ELSE [scope |-> "None", depth |-> 0, pos |-> 0]

\* ------------------------------------------------------- visit results
\* A visit returns the generator (symbol table, allocators of the functions
\* under compilation, innermost last), the instruction vector it was given
\* with what it emitted appended, and (is_temp, register).  cg.err is "ok",
\* the CompileError of an Err result, or "panic" for panic!/unimplemented!.
\* cg.failed remembers the first Err raised and the allocators at that time.
Ok(cg, instructions, is_temp, reg) ==
    [cg |-> cg, ins |-> instructions, temp |-> is_temp, reg |-> reg]

Fail(cg, instructions, e) ==
    [cg |-> [cg EXCEPT !.err = e,
                       !.failed = IF @.e = "ok" /\ e # "panic"
                                  THEN [e |-> e, allocs |-> cg.allocs]
                                  ELSE @],
     ins |-> instructions, temp |-> FALSE, reg |-> 0]

Failed(r) == r.cg.err # "ok"

\* let reg = if let Some(expect) = extract_expect_reg(expect)? { expect }
\*           else { res_alloc.reg_alloc.push(None) }
expect_or_push(cg, expect) ==
    IF expect # NoExpect THEN [cg |-> cg, pos |-> expect]
    ELSE reg_push(cg, NoName)

\* ------------------------------------------------------ label resolution
\* position[id]: the output index of the instruction that follows Label(id)
LabelsBefore(raw, i) == Cardinality({j \in 1..(i - 1) : raw[j].mode = "Label"})

LabelPositions(raw) ==
    LET ids == {raw[i].b : i \in {j \in 1..Len(raw) : raw[j].mode = "Label"}} IN
    [id \in ids |->
        LET i == CHOOSE i \in 1..Len(raw) : raw[i].mode = "Label" /\ raw[i].b = id
        IN (i - 1) - LabelsBefore(raw, i)]

RECURSIVE DropLabels(_)
DropLabels(raw) ==
    IF raw = <<>> THEN <<>>
    ELSE IF Head(raw).mode = "Label" THEN DropLabels(Tail(raw))
    ELSE <<Head(raw)>> \o DropLabels(Tail(raw))

\* Vec<OpMode>::remove_label(): drop the markers and rewrite every JMP whose
\* sBx names a label of the stream into position[id] - (pc + 1)
remove_label(raw) ==
    LET position == LabelPositions(raw)
        out == DropLabels(raw) IN
    [pc \in 1..Len(out) |->
        IF out[pc].op = "JMP" /\ out[pc].b \in DOMAIN position
        THEN [out[pc] EXCEPT !.b = position[out[pc].b] - pc]
        ELSE out[pc]]

\* ------------------------------------------------------------- visitors
RECURSIVE visit_expr(_, _, _, _)
RECURSIVE visit_logic_arith(_, _, _, _)
RECURSIVE visit_boolean_expr(_, _, _, _, _)
RECURSIVE visit_function_call(_, _, _, _, _, _)
RECURSIVE visit_function(_, _, _, _)
RECURSIVE visit_block(_, _, _)
RECURSIVE visit_stat(_, _, _)
RECURSIVE visit_exprlist(_, _, _)
RECURSIVE adjust_list(_, _, _, _)

\* visit_var_Global as it would be if an unresolved name were an error
visit_var_Global_undefined(cg, name, instructions, expect_reg) ==
    Fail(cg, instructions, "UndefinedSymbol")

\* visit_var, SymbolScope::Global
visit_var_Global(cg, name, instructions, expect_reg) ==
    LET c == const_push(cg, Str(name))
        d == expect_or_push(c.cg, expect_reg) IN
    Ok(d.cg, emit_iABx(instructions, "GETGLOBAL", d.pos, c.pos), TRUE, d.pos)

\* visit_var_UpValue as it would be if every read added a descriptor
visit_var_UpValue_append(cg, name, pos, depth, instructions, expect_reg) ==
    LET at == Len(cg.allocs)
        up == IF depth > 1
              THEN propagate_upvalue(cg.allocs, at - 1, name, pos, depth - 1)
              ELSE [allocs |-> cg.allocs, slot |-> pos]
        desc == [name |-> name, is_immediate |-> depth = 1, source_slot |-> up.slot]
        slot == Len(up.allocs[at].upvalue_alloc)
        logged == [up.allocs EXCEPT
                      ![at].upvalue_alloc = Append(@, desc),
                      ![at].reads = Append(@, [name |-> name, slot |-> slot,
                                               desc |-> desc])]
        d == expect_or_push([cg EXCEPT !.allocs = logged], expect_reg) IN
    Ok(d.cg, emit_iABx(instructions, "GETUPVAL", d.pos, slot), TRUE, d.pos)

\* visit_var_UpValue as it would be if the depth of the lookup were dropped
visit_var_UpValue_depth1(cg, name, pos, depth, instructions, expect_reg) ==
    LET up == propagate_upvalue(cg.allocs, Len(cg.allocs), name, pos, 1)
        at == Len(cg.allocs)
        logged == [up.allocs EXCEPT ![at].reads =
                      Append(@, [name |-> name, slot |-> up.slot,
                                 desc |-> up.allocs[at].upvalue_alloc[up.slot + 1]])]
        d == expect_or_push([cg EXCEPT !.allocs = logged], expect_reg) IN
    Ok(d.cg, emit_iABx(instructions, "GETUPVAL", d.pos, up.slot), TRUE, d.pos)

\* visit_var, SymbolScope::UpValue(depth)
visit_var_UpValue(cg, name, pos, depth, instructions, expect_reg) ==
    LET up == propagate_upvalue(cg.allocs, Len(cg.allocs), name, pos, depth)
        at == Len(cg.allocs)
        logged == [up.allocs EXCEPT ![at].reads =
                      Append(@, [name |-> name, slot |-> up.slot,
                                 desc |-> up.allocs[at].upvalue_alloc[up.slot + 1]])]
        d == expect_or_push([cg EXCEPT !.allocs = logged], expect_reg) IN
    Ok(d.cg, emit_iABx(instructions, "GETUPVAL", d.pos, up.slot), TRUE, d.pos)

\* visit_var_Local as it would be if the register of a local read without a
\* hint were handed out as a temporary
visit_var_Local_temp(cg, pos, instructions, expect_reg) ==
    IF expect_reg # NoExpect /\ expect_reg # pos
    THEN Ok(cg, emit_iABx(instructions, "MOVE", expect_reg, pos), FALSE, expect_reg)
    ELSE Ok(cg, instructions, TRUE, pos)

\* visit_var, SymbolScope::Local
visit_var_Local(cg, pos, instructions, expect_reg) ==
    IF expect_reg # NoExpect /\ expect_reg # pos
    THEN Ok(cg, emit_iABx(instructions, "MOVE", expect_reg, pos), FALSE, expect_reg)
    ELSE Ok(cg, instructions, FALSE, pos)

visit_var(cg, var, instructions, expect_reg) ==
    IF var.vk = "Name"
    THEN LET sym == lookup(cg.symbol_table, var.name) IN
         CASE sym.scope = "None" -> Fail(cg, instructions, "UndefinedSymbol")
           [] sym.scope = "Global" ->
                visit_var_Global(cg, var.name, instructions, expect_reg)
           [] sym.scope = "UpValue" ->
                visit_var_UpValue(cg, var.name, sym.pos, sym.depth,
                                  instructions, expect_reg)
           [] sym.scope = "Local" ->
                visit_var_Local(cg, sym.pos, instructions, expect_reg)
    ELSE IF var.vk = "Reg"
    THEN Ok(cg, instructions, TRUE, var.reg)
    ELSE Fail(cg, instructions, "panic")

\* visit_expr, Expr::Num
visit_expr_Num(cg, num, instructions, expect) ==
    LET c == const_push(cg, Real(num))
        d == expect_or_push(c.cg, expect) IN
    Ok(d.cg, emit_iABx(instructions, "LOADK", d.pos, c.pos), TRUE, d.pos)

\* visit_expr, Expr::Boole
visit_expr_Boole(cg, value, instructions, expect) ==
    LET bit == IF value THEN 1 ELSE 0
        d == expect_or_push(cg, expect) IN
    Ok(d.cg, emit_iABC(instructions, "LOADBOOL", d.pos, bit, 0), TRUE, d.pos)

\* let x = v; Then(x): the value of a visit bound once and used by what
\* follows (try!(...) and ? are the IF Failed(x) THEN x in Then)
Bind(v, Then(_)) == Then(v)

\* visit_expr_Arith as it would be without the destructive reuse of the left
\* register: the destination is always a fresh register
visit_expr_Arith_fresh(cg, expr, instructions, expect) ==
    Bind(visit_expr(cg, expr.left, instructions, NoExpect), LAMBDA l :
    IF Failed(l) THEN l ELSE
    Bind(visit_expr(l.cg, expr.right, l.ins, NoExpect), LAMBDA r :
    IF Failed(r) THEN r ELSE
    LET op == flag_to_op(expr.flag)
        result == IF expect # NoExpect
                  THEN [cg |-> r.cg, temp |-> FALSE, pos |-> expect]
                  ELSE LET p == reg_push(r.cg, NoName) IN
                       [cg |-> p.cg, temp |-> TRUE, pos |-> p.pos] IN
    Ok(result.cg, emit_iABC(r.ins, op, result.pos, l.reg, r.reg),
       result.temp, result.pos)))

\* visit_expr, Expr::BinOp with + - * /
visit_expr_Arith(cg, expr, instructions, expect) ==
    Bind(visit_expr(cg, expr.left, instructions, NoExpect), LAMBDA l :
    IF Failed(l) THEN l ELSE
    Bind(visit_expr(l.cg, expr.right, l.ins, NoExpect), LAMBDA r :
    IF Failed(r) THEN r ELSE
    LET op == flag_to_op(expr.flag)
        result == IF expect # NoExpect
                  THEN [cg |-> r.cg, temp |-> FALSE, pos |-> expect]
                  ELSE IF l.temp
                  THEN [cg |-> r.cg, temp |-> TRUE, pos |-> l.reg]
                  ELSE LET p == reg_push(r.cg, NoName) IN
                       [cg |-> p.cg, temp |-> TRUE, pos |-> p.pos] IN
    Ok(result.cg, emit_iABC(r.ins, op, result.pos, l.reg, r.reg),
       result.temp, result.pos)))

\* the pseudo instructions after CLOSURE, one per entry of upvalue_list
RECURSIVE emit_upvalue_moves(_, _)
emit_upvalue_moves(instructions, upvalue_list) ==
    IF upvalue_list = <<>> THEN instructions
    ELSE LET is_immidiate == Head(upvalue_list)[1]
             pos_in_vl == Head(upvalue_list)[2]
             pos_in_parent == Head(upvalue_list)[3] IN
         emit_upvalue_moves(
             IF is_immidiate
             THEN emit_iABx(instructions, "MOVE", pos_in_vl, pos_in_parent)
             ELSE emit_iABx(instructions, "GETUPVAL", pos_in_vl, pos_in_parent),
             Tail(upvalue_list))

\* visit_expr, Expr::FunctionDef
visit_expr_FunctionDef(cg, expr, instructions, expect) ==
    Bind(visit_function([cg EXCEPT !.symbol_table = initialize_scope(@)],
                        expr.body, expr.paras, expr.is_vararg), LAMBDA f :
    IF f.cg.err # "ok" THEN Fail(f.cg, instructions, f.cg.err) ELSE
    LET closed == [f.cg EXCEPT !.symbol_table = finalize_scope(@)]
        fp == function_push(closed, f.prototype)
        d == expect_or_push(fp.cg, expect)
        closure == emit_iABx(instructions, "CLOSURE", d.pos, fp.pos) IN
    Ok(d.cg, emit_upvalue_moves(closure, f.upvalue_list), TRUE, d.pos))

visit_expr(cg, expr, instructions, expect) ==
    CASE expr.k = "Num" -> visit_expr_Num(cg, expr.num, instructions, expect)
      [] expr.k = "Boole" -> visit_expr_Boole(cg, expr.bool, instructions, expect)
      [] expr.k = "BinOp" ->
           IF expr.flag \in ArithFlags
           THEN visit_expr_Arith(cg, expr, instructions, expect)
           ELSE visit_logic_arith(cg, expr, instructions, expect)
      [] expr.k = "Var" -> visit_var(cg, expr.var, instructions, expect)
      [] expr.k = "FunctionDef" ->
           visit_expr_FunctionDef(cg, expr, instructions, expect)
      [] expr.k = "FunctionCall" ->
           Bind(visit_function_call(cg, expr.expr, expr.args, expr.is_vararg,
                                    1, instructions), LAMBDA c :
           IF Failed(c) THEN c ELSE Ok(c.cg, c.ins, TRUE, c.reg))
      [] expr.k = "UnaryOp" ->
           IF expr.flag = "Minus" THEN Fail(cg, instructions, "panic")
           ELSE IF expr.flag = "Plus"
           THEN visit_expr(cg, expr.left, instructions, expect)
           ELSE visit_logic_arith(cg, expr, instructions, expect)
      [] OTHER -> Fail(cg, instructions, "panic")

\* visit_boolean_cmp as it would be with the polarity of the test inverted
visit_boolean_cmp_flipped(cg, expr, true_br, false_br, fall_through) ==
    Bind(visit_expr(cg, expr.left, <<>>, NoExpect), LAMBDA l :
    IF Failed(l) THEN l ELSE
    Bind(visit_expr(l.cg, expr.right, l.ins, NoExpect), LAMBDA r :
    IF Failed(r) THEN r ELSE
    LET op == expr.flag
        op_name == CASE op = "LESS" -> "LT" [] op = "LEQ" -> "LE"
                     [] op = "GREATER" -> "LE" [] op = "GEQ" -> "LT"
                     [] op = "EQ" -> "EQ" [] op = "NEQ" -> "EQ"
        test_bool == op \in {"LESS", "LEQ", "EQ"}
        test_int == IF fall_through THEN (IF test_bool THEN 0 ELSE 1)
                    ELSE (IF test_bool THEN 1 ELSE 0)
        path == IF fall_through THEN true_br ELSE false_br
        test == emit_iABC(r.ins, op_name, test_int, l.reg, r.reg) IN
    Ok(r.cg, emit_iAsBx(test, "JMP", 0, path), FALSE, 0)))

\* visit_boolean_expr, the six comparisons: both operands into registers,
\* then the test and the JMP to the branch that is not fallen through to
visit_boolean_cmp(cg, expr, true_br, false_br, fall_through) ==
    Bind(visit_expr(cg, expr.left, <<>>, NoExpect), LAMBDA l :
    IF Failed(l) THEN l ELSE
    Bind(visit_expr(l.cg, expr.right, l.ins, NoExpect), LAMBDA r :
    IF Failed(r) THEN r ELSE
    LET op == expr.flag
        op_name == CASE op = "LESS" -> "LT" [] op = "LEQ" -> "LE"
                     [] op = "GREATER" -> "LE" [] op = "GEQ" -> "LT"
                     [] op = "EQ" -> "EQ" [] op = "NEQ" -> "EQ"
        test_bool == op \in {"LESS", "LEQ", "EQ"}
        test_int == IF fall_through THEN (IF test_bool THEN 1 ELSE 0)
                    ELSE (IF test_bool THEN 0 ELSE 1)
        path == IF fall_through THEN true_br ELSE false_br
        test == emit_iABC(r.ins, op_name, test_int, l.reg, r.reg) IN
    Ok(r.cg, emit_iAsBx(test, "JMP", 0, path), FALSE, 0)))

\* visit_boolean_var as it would be if the JMP went to the other label
visit_boolean_var_other(cg, var, true_br, false_br, fall_through) ==
    Bind(visit_var(cg, var, <<>>, NoExpect), LAMBDA v :
    IF Failed(v) THEN v ELSE
    IF fall_through
    THEN Ok(v.cg, emit_iAsBx(emit_iABx(v.ins, "TEST", v.reg, 1), "JMP", 0, false_br),
            FALSE, 0)
    ELSE Ok(v.cg, emit_iAsBx(emit_iABx(v.ins, "TEST", v.reg, 0), "JMP", 0, true_br),
            FALSE, 0))

\* visit_boolean_expr, Expr::Var as predicate
visit_boolean_var(cg, var, true_br, false_br, fall_through) ==
    Bind(visit_var(cg, var, <<>>, NoExpect), LAMBDA v :
    IF Failed(v) THEN v ELSE
    IF fall_through
    THEN Ok(v.cg, emit_iAsBx(emit_iABx(v.ins, "TEST", v.reg, 1), "JMP", 0, true_br),
            FALSE, 0)
    ELSE Ok(v.cg, emit_iAsBx(emit_iABx(v.ins, "TEST", v.reg, 0), "JMP", 0, false_br),
            FALSE, 0))

\* the raw stream (with Label markers) of a predicate
visit_boolean_expr(cg, expr, true_br, false_br, fall_through) ==
    CASE expr.k = "BinOp" /\ expr.flag \in {"OR", "AND"} ->
           Bind(new_label(cg), LAMBDA lab :
           Bind(IF expr.flag = "OR"
                THEN visit_boolean_expr(lab.cg, expr.left, true_br, lab.label, TRUE)
                ELSE visit_boolean_expr(lab.cg, expr.left, lab.label, false_br, FALSE),
                LAMBDA left_raw :
           IF Failed(left_raw) THEN left_raw ELSE
           Bind(visit_boolean_expr(left_raw.cg, expr.right, true_br, false_br,
                                   fall_through), LAMBDA right_raw :
           IF Failed(right_raw) THEN right_raw ELSE
           Ok(right_raw.cg,
              Append(left_raw.ins, Label(lab.label)) \o right_raw.ins,
              FALSE, 0))))
      [] expr.k = "BinOp" /\ expr.flag \in CmpFlags ->
           visit_boolean_cmp(cg, expr, true_br, false_br, fall_through)
      [] expr.k = "UnaryOp" /\ expr.flag = "Not" ->
           visit_boolean_expr(cg, expr.left, false_br, true_br, ~fall_through)
      [] expr.k = "Var" ->
           visit_boolean_var(cg, expr.var, true_br, false_br, fall_through)
      [] expr.k = "Boole" ->
           Ok(cg, emit_iAsBx(<<>>, "JMP", 0, IF expr.bool THEN true_br ELSE false_br),
              FALSE, 0)
      [] OTHER -> Fail(cg, <<>>, "panic")

\* visit_logic_arith as it would be if the raw stream were appended as is
visit_logic_arith_raw(cg, expr, instruction, expect) ==
    Bind(expect_or_push(cg, expect), LAMBDA d :
    Bind(new_label(d.cg), LAMBDA t :
    Bind(new_label(t.cg), LAMBDA f :
    Bind(visit_boolean_expr(f.cg, expr, t.label, f.label, TRUE), LAMBDA b :
    IF Failed(b) THEN Fail(b.cg, instruction, b.cg.err) ELSE
    LET raw == emit_iABC(
                 Append(emit_iABC(Append(b.ins, Label(f.label)),
                                  "LOADBOOL", d.pos, 0, 1),
                        Label(t.label)),
                 "LOADBOOL", d.pos, 1, 0) IN
    Ok(b.cg, instruction \o raw, TRUE, d.pos)))))

\* materialize a predicate: the raw stream, then the two LOADBOOL guarded by
\* false_label and true_label; labels are resolved before the append
visit_logic_arith(cg, expr, instruction, expect) ==
    Bind(expect_or_push(cg, expect), LAMBDA result_reg :
    Bind(new_label(result_reg.cg), LAMBDA true_label :
    Bind(new_label(true_label.cg), LAMBDA false_label :
    Bind(visit_boolean_expr(false_label.cg, expr, true_label.label,
                            false_label.label, TRUE), LAMBDA b :
    IF Failed(b) THEN Fail(b.cg, instruction, b.cg.err) ELSE
    LET raw == emit_iABC(
                 Append(emit_iABC(Append(b.ins, Label(false_label.label)),
                                  "LOADBOOL", result_reg.pos, 0, 1),
                        Label(true_label.label)),
                 "LOADBOOL", result_reg.pos, 1, 0) IN
    Ok(b.cg, instruction \o remove_label(raw), TRUE, result_reg.pos)))))

\* exprlist.map(visit_expr).filter(is_ok).map(unwrap).collect(): every
\* expression is visited, Err results are dropped from the list
RECURSIVE map_visit_expr(_, _, _, _, _)
map_visit_expr(cg, exprlist, i, instructions, reg_list) ==
    IF i > Len(exprlist)
    THEN [cg |-> cg, ins |-> instructions, reg_list |-> reg_list]
    ELSE Bind(visit_expr(cg, exprlist[i], instructions, NoExpect), LAMBDA r :
         IF r.cg.err = "panic"
         THEN [cg |-> r.cg, ins |-> r.ins, reg_list |-> reg_list]
         ELSE IF Failed(r)
         THEN map_visit_expr([r.cg EXCEPT !.err = "ok"], exprlist, i + 1, r.ins,
                             reg_list)
         ELSE map_visit_expr(r.cg, exprlist, i + 1, r.ins,
                             Append(reg_list, [temp |-> r.temp, reg |-> r.reg])))

visit_exprlist(cg, exprlist, instructions) ==
    Bind(map_visit_expr(cg, exprlist, 1, instructions, <<>>), LAMBDA m :
    IF m.cg.err = "panic" THEN m
    ELSE IF Len(m.reg_list) # Len(exprlist)
    THEN [m EXCEPT !.cg = Fail(m.cg, m.ins, "SyntexError").cg]
    ELSE m)

\* for _ in 0..ret_num { res_alloc.reg_alloc.push(None); }
RECURSIVE reg_push_n(_, _)
reg_push_n(cg, n) ==
    IF n <= 0 THEN cg ELSE reg_push_n(reg_push(cg, NoName).cg, n - 1)

\* args[i .. n] materialized into args_reg, args_reg + 1, ...
RECURSIVE visit_args(_, _, _, _, _, _)
visit_args(cg, args, i, n, args_reg, instructions) ==
    IF i > n THEN Ok(cg, instructions, FALSE, args_reg)
    ELSE Bind(visit_expr(cg, args[i], instructions, args_reg), LAMBDA a :
         IF Failed(a) THEN a
         ELSE visit_args(a.cg, args, i + 1, n, args_reg + 1, a.ins))

visit_function_call(cg, expr, args, is_vararg, expect_ret, instructions) ==
    Bind(reg_push(cg, NoName).pos, LAMBDA func_pos :
    Bind(visit_expr(reg_push(cg, NoName).cg, expr, instructions, func_pos),
         LAMBDA callee :
    IF Failed(callee) THEN callee ELSE
    Bind(IF expect_ret # Indeterminate
         THEN reg_push_n(callee.cg, expect_ret)
         ELSE callee.cg, LAMBDA reserved :
    Bind(IF expect_ret # Indeterminate THEN expect_ret + 1 ELSE 0,
         LAMBDA ret_field :
    IF Len(args) = 0
    THEN Ok(reserved, emit_iABC(callee.ins, "CALL", func_pos, 1, ret_field),
            TRUE, func_pos)
    ELSE IF args[Len(args)].k = "FunctionCall"
    THEN Bind(visit_args(reserved, args, 1, Len(args) - 1, func_pos + 1,
                         callee.ins), LAMBDA a :
         IF Failed(a) THEN a ELSE
         Bind(visit_function_call(a.cg, args[Len(args)].expr,
                                  args[Len(args)].args,
                                  args[Len(args)].is_vararg, Indeterminate,
                                  a.ins), LAMBDA inner :
         IF Failed(inner) THEN inner ELSE
         Ok(inner.cg, emit_iABC(inner.ins, "CALL", func_pos, 0, ret_field),
            TRUE, func_pos)))
    ELSE Bind(visit_args(reserved, args, 1, Len(args), func_pos + 1,
                         callee.ins), LAMBDA a :
         IF Failed(a) THEN a ELSE
         Ok(a.cg, emit_iABC(a.ins, "CALL", func_pos, Len(args) + 1, ret_field),
            TRUE, func_pos))))))

\* the synthetic Var::Reg expressions first, first + 1, ..., first + n - 1
\* RegExprs as it would be if the range started one register later
RegExprs_shifted(first, n) == [i \in 1..n |-> Var(VarReg(first + i))]

RegExprs(first, n) == [i \in 1..n |-> Var(VarReg(first + i - 1))]

\* adjust_list as it would be if surplus expressions were kept
adjust_list_keep(cg, varlist, exprlist, instructions) ==
    LET same(c, ins, el) ==
            [cg |-> c, ins |-> ins, varlist |-> varlist, exprlist |-> el] IN
    IF Len(varlist) = Len(exprlist)
    THEN same(cg, instructions, exprlist)
    ELSE IF Len(varlist) < Len(exprlist)
    THEN same(cg, instructions, exprlist)
    ELSE IF Len(exprlist) = 1 /\ exprlist[1].k = "FunctionCall"
    THEN Bind(visit_function_call(cg, exprlist[1].expr, exprlist[1].args,
                                  exprlist[1].is_vararg, Len(varlist),
                                  instructions), LAMBDA c :
         IF Failed(c) THEN same(c.cg, c.ins, <<>>)
         ELSE same(c.cg, c.ins, RegExprs(c.reg, Len(varlist))))
    ELSE LET num == Len(varlist) - Len(exprlist)
             start_reg == reg_size(cg)
             pushed == reg_push_n(cg, num) IN
         same(pushed,
              emit_iABx(instructions, "LOADNIL", start_reg, num - 1),
              exprlist \o RegExprs(start_reg, num))

\* (varlist, exprlist) of equal length; err in cg
adjust_list(cg, varlist, exprlist, instructions) ==
    LET same(c, ins, el) ==
            [cg |-> c, ins |-> ins, varlist |-> varlist, exprlist |-> el] IN
    IF Len(varlist) = Len(exprlist)
    THEN same(cg, instructions, exprlist)
    ELSE IF Len(varlist) < Len(exprlist)
    THEN same(cg, instructions, SubSeq(exprlist, 1, Len(varlist)))
    ELSE IF Len(exprlist) = 1 /\ exprlist[1].k = "FunctionCall"
    THEN Bind(visit_function_call(cg, exprlist[1].expr, exprlist[1].args,
                                  exprlist[1].is_vararg, Len(varlist),
                                  instructions), LAMBDA c :
         IF Failed(c) THEN same(c.cg, c.ins, <<>>)
         ELSE same(c.cg, c.ins, RegExprs(c.reg, Len(varlist))))
    ELSE LET num == Len(varlist) - Len(exprlist)
             start_reg == reg_size(cg)
             pushed == reg_push_n(cg, num) IN
         same(pushed,
              emit_iABx(instructions, "LOADNIL", start_reg, num - 1),
              exprlist \o RegExprs(start_reg, num))

\* prepare_global_value as it would be if the name were appended unchecked
prepare_global_value_append(cg, name) ==
    [cg |-> [cg EXCEPT !.allocs[Len(cg.allocs)].const_alloc = Append(@, Str(name)),
                       !.symbol_table = define_global(@, name)],
     pos |-> Len(Cur(cg).const_alloc)]

\* add the name to the constants and define it in the global scope
prepare_global_value(cg, name) ==
    LET c == const_push(cg, Str(name)) IN
    [cg |-> [c.cg EXCEPT !.symbol_table = define_global(@, name)], pos |-> c.pos]

Done(cg, instructions) == [cg |-> cg, ins |-> instructions]

\* Stat::Assign, the loop over (var, expr) pairs
RECURSIVE assign_vars(_, _, _, _, _)
assign_vars(cg, varlist, reg_list, i, instructions) ==
    IF i > Len(varlist) \/ i > Len(reg_list) THEN Done(cg, instructions)
    ELSE LET var == varlist[i]
             expr == reg_list[i] IN
         IF var.vk # "Name" THEN Done(Fail(cg, instructions, "panic").cg, instructions)
         ELSE Bind(lookup(cg.symbol_table, var.name), LAMBDA sym :
              CASE sym.scope \in {"Global", "None"} ->
                     Bind(prepare_global_value(cg, var.name), LAMBDA g :
                     assign_vars(g.cg, varlist, reg_list, i + 1,
                                 emit_iABx(instructions, "SETGLOBAL", expr.reg, g.pos)))
                [] sym.scope = "Local" ->
                     assign_vars(cg, varlist, reg_list, i + 1,
                                 emit_iABx(instructions, "MOVE", sym.pos, expr.reg))
                [] sym.scope = "UpValue" ->
                     Done(Fail(cg, instructions, "panic").cg, instructions))

\* define_locals as it would be if every name got a fresh register and a MOVE
RECURSIVE define_locals_move(_, _, _, _, _)
define_locals_move(cg, namelist, reg_list, i, instructions) ==
    IF i > Len(namelist) \/ i > Len(reg_list) THEN Done(cg, instructions)
    ELSE Bind(reg_push(cg, namelist[i]), LAMBDA p :
         define_locals_move(
             [p.cg EXCEPT !.symbol_table = define_local(@, namelist[i], p.pos)],
             namelist, reg_list, i + 1,
             emit_iABx(instructions, "MOVE", p.pos, reg_list[i].reg)))

\* Stat::AssignLocal, the loop over (name, (is_temp, expr_reg)) pairs
RECURSIVE define_locals(_, _, _, _, _)
define_locals(cg, namelist, reg_list, i, instructions) ==
    IF i > Len(namelist) \/ i > Len(reg_list) THEN Done(cg, instructions)
    ELSE LET name == namelist[i]
             is_temp == reg_list[i].temp
             expr_reg == reg_list[i].reg IN
         IF is_temp
         THEN define_locals(
                  [reg_push_set(cg, name, expr_reg) EXCEPT
                       !.symbol_table = define_local(@, name, expr_reg)],
                  namelist, reg_list, i + 1, instructions)
         ELSE Bind(reg_push(cg, name), LAMBDA p :
              define_locals(
                  [p.cg EXCEPT !.symbol_table = define_local(@, name, p.pos)],
                  namelist, reg_list, i + 1,
                  emit_iABx(instructions, "MOVE", p.pos, expr_reg)))

\* visit_rets as it would be if the expressions were visited without
\* their destination registers
RECURSIVE visit_rets_nohint(_, _, _, _, _)
visit_rets_nohint(cg, exprlist, i, start, instructions) ==
    IF i > Len(exprlist) THEN Done(cg, instructions)
    ELSE Bind(visit_expr(cg, exprlist[i], instructions, NoExpect), LAMBDA r :
         IF Failed(r) THEN Done(r.cg, r.ins)
         ELSE visit_rets_nohint(r.cg, exprlist, i + 1, start, r.ins))

\* Stat::Ret, the loop over (expr, reg) pairs
RECURSIVE visit_rets(_, _, _, _, _)
visit_rets(cg, exprlist, i, start, instructions) ==
    IF i > Len(exprlist) THEN Done(cg, instructions)
    ELSE Bind(visit_expr(cg, exprlist[i], instructions, start + i - 1), LAMBDA r :
         IF Failed(r) THEN Done(r.cg, r.ins)
         ELSE visit_rets(r.cg, exprlist, i + 1, start, r.ins))

\* Stat::Assign and Stat::AssignLocal up to the loop over the pairs:
\* adjust_list, then visit_exprlist
visit_assigned(cg, varlist, exprlist, instructions) ==
    Bind(adjust_list(cg, varlist, exprlist, instructions), LAMBDA adj :
    IF adj.cg.err # "ok"
    THEN [cg |-> adj.cg, ins |-> adj.ins, varlist |-> <<>>, reg_list |-> <<>>]
    ELSE Bind(visit_exprlist(adj.cg, adj.exprlist, adj.ins), LAMBDA m :
         [cg |-> m.cg, ins |-> m.ins, varlist |-> adj.varlist,
          reg_list |-> m.reg_list]))

visit_stat(cg, stat, instructions) ==
    CASE stat.k = "Assign" ->
           Bind(visit_assigned(cg, stat.vars, stat.exprs, instructions), LAMBDA m :
           IF m.cg.err # "ok" THEN Done(m.cg, m.ins) ELSE
           assign_vars(m.cg, m.varlist, m.reg_list, 1, m.ins))
      [] stat.k = "AssignLocal" ->
           Bind(visit_assigned(cg, stat.names, stat.exprs, instructions), LAMBDA m :
           IF m.cg.err # "ok" THEN Done(m.cg, m.ins) ELSE
           define_locals(m.cg, m.varlist, m.reg_list, 1, m.ins))
      [] stat.k = "Ret" ->
           Bind(visit_rets(reg_push_n(cg, Len(stat.exprs)), stat.exprs, 1,
                           IF Len(stat.exprs) > 0 THEN reg_size(cg) ELSE 0,
                           instructions), LAMBDA v :
           IF v.cg.err # "ok" THEN v ELSE
           Done(v.cg, emit_iABx(v.ins, "RETURN",
                                IF Len(stat.exprs) > 0 THEN reg_size(cg) ELSE 0,
                                Len(stat.exprs) + 1)))
      [] OTHER -> Done(Fail(cg, instructions, "panic").cg, instructions)

RECURSIVE visit_stats(_, _, _, _)
visit_stats(cg, stats, i, instructions) ==
    IF i > Len(stats) THEN Done(cg, instructions)
    ELSE Bind(visit_stat(cg, stats[i], instructions), LAMBDA s :
         IF s.cg.err # "ok" THEN s
         ELSE visit_stats(s.cg, stats, i + 1, s.ins))

\* the statements in order, then the return statement if there is one
visit_block(cg, node, instructions) ==
    Bind(visit_stats(cg, node.stats, 1, instructions), LAMBDA s :
    IF s.cg.err # "ok" THEN s
    ELSE IF node.has_ret THEN visit_stat(s.cg, Ret(node.ret), s.ins)
    ELSE s)

\* visit_function, entry: a fresh ResourceAlloc whose parent is the current
\* one, the parameters in the first registers
RECURSIVE define_paras(_, _, _)
define_paras(cg, paras, i) ==
    IF i > Len(paras) THEN cg
    ELSE Bind(reg_push(cg, paras[i]), LAMBDA p :
         define_paras([p.cg EXCEPT !.symbol_table = define_local(@, paras[i], p.pos)],
                      paras, i + 1))

enter_function(cg, paras) ==
    define_paras([cg EXCEPT !.allocs = Append(@, NewResourceAlloc)], paras, 1)

\* the allocator of the finished (or failed) function goes out of scope
leave_function(cg) == [cg EXCEPT !.allocs = SubSeq(@, 1, Len(@) - 1)]

\* the chunk of visit_function from the instruction vector and the allocator
func_chunk(res_alloc, instructions, paras, is_vararg) ==
    [upvalue_num |-> Len(res_alloc.upvalue_alloc),
     para_num |-> Len(paras),
     is_vararg |-> is_vararg,
     stack_size |-> Len(res_alloc.reg_alloc),
     ins_len |-> Len(instructions),
     instructions |-> instructions,
     constants |-> res_alloc.const_alloc,
     funclist_len |-> Len(res_alloc.function_alloc),
     function_prototypes |-> res_alloc.function_alloc,
     upvalues |-> res_alloc.upvalue_alloc,
     regs |-> res_alloc.reg_alloc,
     reads |-> res_alloc.reads]

\* finish_function as it would be without the trailing RETURN
finish_function_no_return(cg, body_ins, paras, is_vararg) ==
    [cg |-> leave_function(cg),
     prototype |-> func_chunk(Cur(cg), body_ins, paras, is_vararg),
     upvalue_list |-> into_list(Cur(cg).upvalue_alloc)]

\* visit_function, exit: the trailing RETURN and the chunk
finish_function(cg, body_ins, paras, is_vararg) ==
    [cg |-> leave_function(cg),
     prototype |-> func_chunk(Cur(cg), emit_iABx(body_ins, "RETURN", 0, 1),
                              paras, is_vararg),
     upvalue_list |-> into_list(Cur(cg).upvalue_alloc)]

visit_function(cg, node, paras, is_vararg) ==
    Bind(visit_block(enter_function(cg, paras), node, <<>>), LAMBDA b :
    IF b.cg.err # "ok"
    THEN [cg |-> leave_function(b.cg), prototype |-> NewFunctionChunk,
          upvalue_list |-> <<>>]
    ELSE finish_function(b.cg, b.ins, paras, is_vararg))

\* ------------------------------------------------------------- programs
\* The statements the root block is drawn from.  a and b are declared local
\* by some statements, g is only ever a global.
Nums == {Num(n) : n \in 1..MaxNum}
Atoms == Nums \cup {Name("a"), Name("b"), Name("g")}

Ariths ==
    {BinOp("Plus", l, r) : l \in {Num(1), Name("a")}, r \in {Num(MaxNum), Name("b")}}
      \cup {BinOp(flag, Name("a"), Num(1)) : flag \in ArithFlags \ {"Plus"}}

Preds ==
    { BinOp("LESS", Name("a"), Num(1)),
      BinOp("GEQ", Name("a"), Name("b")),
      UnaryOp("Not", Name("a")),
      UnaryOp("Not", BinOp("OR", BinOp("LEQ", Num(1), Num(MaxNum)),
                                 BinOp("EQ", Name("a"), Name("b")))),
      BinOp("AND", Name("a"), Boole(FALSE)),
      BinOp("OR", Name("a"), Name("b")),
      BinOp("EQ", BinOp("LESS", Name("a"), Name("b")), Name("a")) }

Call(args) == FunctionCall(Name("g"), args, FALSE)
Calls ==
    { Call(<<>>),
      Call(<<Num(1), Num(MaxNum)>>),
      Call(<<Num(1), Call(<<>>)>>),
      Call(<<Call(<<Num(1)>>), Num(1)>>),
      Call(<<Name("a"), Num(1), BinOp("Plus", Num(1), Num(MaxNum))>>) }

\* function() return b, a + b end
Inner == FunctionDef(<<>>, FALSE,
            Block(<<>>, TRUE, <<Name("b"), BinOp("Plus", Name("a"), Name("b"))>>))
\* function(p) local c = p < a  return c, function(q) return q + p, a, b, a end end
Outer == FunctionDef(<<"p">>, FALSE,
            Block(<<AssignLocal(<<"c">>, <<BinOp("LESS", Name("p"), Name("a"))>>)>>,
                  TRUE,
                  <<Name("c"),
                    FunctionDef(<<"q">>, FALSE,
                        Block(<<>>, TRUE,
                              <<BinOp("Plus", Name("q"), Name("p")),
                                Name("a"), Name("b"), Name("a")>>))>>))
\* function() g = function() return a end end
Relay == FunctionDef(<<>>, FALSE,
            Block(<<Assign(<<VarName("g")>>,
                           <<FunctionDef(<<>>, FALSE,
                                Block(<<>>, TRUE, <<Name("a")>>))>>)>>,
                  FALSE, <<>>))
FunctionDefs == {Inner, Outer, Relay}

Exprs == Atoms \cup Ariths \cup Preds \cup Calls \cup FunctionDefs

Stats ==
    {AssignLocal(<<"a">>, <<e>>) : e \in Exprs}
      \cup {AssignLocal(<<"b", "a">>, <<e>>) : e \in {Num(1), Name("g"), Call(<<Num(1)>>)}}
      \cup {AssignLocal(<<"b", "a">>, <<Num(1), Num(MaxNum)>>),
            AssignLocal(<<"b", "a">>, <<Name("a"), Num(1)>>)}
      \cup {Assign(<<VarName("g")>>, <<e>>) : e \in Nums \cup FunctionDefs \cup {Name("a")}}
      \cup {Assign(<<VarName("a"), VarName("g")>>, <<e>>) :
               e \in {Num(1), Call(<<Num(1), Num(1), Num(1)>>)}}
      \cup {Assign(<<VarName("a")>>, <<Name("h"), Num(1)>>),
            Assign(<<VarName("a"), VarName("b")>>, <<Name("h"), Num(1)>>),
            Assign(<<VarName("a"), VarName("b")>>, <<Name("b"), Name("a")>>)}

\* the return statement of the root block, if any
Rets ==
    { [has_ret |-> FALSE, ret |-> <<>>],
      [has_ret |-> TRUE, ret |-> <<>>],
      [has_ret |-> TRUE, ret |-> <<Name("a"), Num(1)>>] }

\* ---------------------------------------------------------------- state
VARIABLES
    symbol_table,    \* CodeGen.symbol_table
    root_function,   \* CodeGen.root_function
    pc,              \* "idle", "block" (inside visit_block of the root), "returned"
    allocs,          \* the ResourceAlloc of the root function while it lives
    instructions,    \* the instruction vector of the root function
    unit,            \* the statements of the root block visited so far
    ret,             \* the return statement visited, once the block is done
    result,          \* what compile returned: "none", "Ok", an error, "panic"
    failed           \* the first Err raised during this compile

vars == <<symbol_table, root_function, pc, allocs, instructions, unit, ret,
          result, failed>>

NoFailure == [e |-> "ok", allocs |-> <<>>]

\* the generator as the visitors see it
CG == [symbol_table |-> symbol_table, allocs |-> allocs, err |-> "ok",
       failed |-> failed]

\* CodeGen::new()
InitWith(absent) ==
    /\ symbol_table = NewSymbolTable(absent)
    /\ root_function = NewFunctionChunk
    /\ pc = "idle"
    /\ allocs = <<>>
    /\ instructions = <<>>
    /\ unit = <<>>
    /\ ret = [has_ret |-> FALSE, ret |-> <<>>]
    /\ result = "none"
    /\ failed = NoFailure

\* lookup answers Global for a name bound nowhere (specification, section 3)
Init == InitWith("Global")

\* lookup answers None for a name bound nowhere and never assigned as a
\* global: the answer visit_var and Stat::Assign provide for
InitUndef == InitWith("None")

\* compile -> visit_unit -> visit_function(node, None, [], true), up to the
\* call of visit_block
Compile ==
    /\ pc = "idle" /\ result = "none"
    /\ \E entered \in {enter_function(CG, <<>>)} :
       /\ allocs' = entered.allocs
       /\ symbol_table' = entered.symbol_table
    /\ instructions' = <<>>
    /\ pc' = "block"
    /\ UNCHANGED <<root_function, unit, ret, result, failed>>

\* Abort as it would be if visit_unit stored the chunk under construction
Abort_partial(cg, ins) ==
    /\ pc' = "returned"
    /\ result' = cg.err
    /\ allocs' = cg.allocs
    /\ instructions' = ins
    /\ symbol_table' = cg.symbol_table
    /\ failed' = cg.failed
    /\ root_function' = finish_function(cg, ins, <<>>, TRUE).prototype

\* compile returns Err(e) (or unwinds): the chunk under construction is
\* dropped, root_function is not assigned
Abort(cg, ins) ==
    /\ pc' = "returned"
    /\ result' = cg.err
    /\ allocs' = cg.allocs
    /\ instructions' = ins
    /\ symbol_table' = cg.symbol_table
    /\ failed' = cg.failed
    /\ UNCHANGED root_function

\* one iteration of the loop over stats in visit_block
VisitStat(stat) ==
    /\ pc = "block" /\ Len(unit) < MaxStats
    /\ unit' = Append(unit, stat)
    /\ UNCHANGED ret
    /\ \E s \in {visit_stat(CG, stat, instructions)} :
       IF s.cg.err # "ok" THEN Abort(s.cg, s.ins)
       ELSE /\ allocs' = s.cg.allocs
            /\ symbol_table' = s.cg.symbol_table
            /\ instructions' = s.ins
            /\ failed' = s.cg.failed
            /\ UNCHANGED <<root_function, pc, result>>

\* the end of visit_block (the return statement), the rest of
\* visit_function and the assignment of root_function in visit_unit
FinishBlock(r) ==
    /\ pc = "block"
    /\ ret' = r
    /\ UNCHANGED unit
    /\ \E b \in {IF r.has_ret THEN visit_stat(CG, Ret(r.ret), instructions)
                  ELSE Done(CG, instructions)} :
       IF b.cg.err # "ok" THEN Abort(b.cg, b.ins)
       ELSE \E func \in {finish_function(b.cg, b.ins, <<>>, TRUE)} :
            /\ root_function' = func.prototype
            /\ allocs' = func.cg.allocs
            /\ symbol_table' = func.cg.symbol_table
            /\ instructions' = func.prototype.instructions
            /\ failed' = func.cg.failed
            /\ result' = "Ok"
            /\ pc' = "returned"

Next ==
    \/ Compile
    \/ \E stat \in Stats : VisitStat(stat)
    \/ \E r \in Rets : FinishBlock(r)

Spec == Init /\ [][Next]_vars

SpecUndef == InitUndef /\ [][Next]_vars

\* ------------------------------------------ a second universe of programs
\* Programs that put every expression form into a return statement and that
\* spell out the unit test global_arith.
\* a, b = 2.5, 2 * 4 and local c = (a + b) / 10.5, the literals scaled by ten
\* (the pool holds them as opaque values)
GlobalArith1 ==
    Assign(<<VarName("a"), VarName("b")>>,
           <<Num(25), BinOp("Mul", Num(20), Num(40))>>)
GlobalArith2 ==
    AssignLocal(<<"c">>,
                <<BinOp("Div", BinOp("Plus", Name("a"), Name("b")), Num(105))>>)

FormStats ==
    { AssignLocal(<<"a">>, <<Num(1)>>),
      AssignLocal(<<"b", "a">>, <<Num(1), Num(MaxNum)>>),
      AssignLocal(<<"b", "a">>, <<Inner, Relay>>),
      Assign(<<VarName("g")>>, <<Outer>>),
      AssignLocal(<<"b", "a">>, <<Call(<<Num(1), Call(<<>>)>>)>>),
      GlobalArith1,
      GlobalArith2 }

\* return e for one expression of every form, and return lists
FormExprs ==
    { Num(MaxNum), Boole(TRUE), Name("a"), Name("g"),
      BinOp("Plus", Name("a"), Num(1)),
      BinOp("LESS", Name("a"), Num(1)),
      UnaryOp("Not", Name("a")),
      UnaryOp("Plus", Name("a")),
      Inner,
      Call(<<>>),
      Call(<<Call(<<>>), Num(1)>>),
      Call(<<Call(<<>>)>>),
      Call(<<Num(1), Call(<<>>)>>),
      Call(<<Call(<<Num(1), Call(<<>>)>>)>>) }

FormRets ==
    { [has_ret |-> FALSE, ret |-> <<>>],
      [has_ret |-> TRUE, ret |-> <<>>],
      [has_ret |-> TRUE, ret |-> <<Name("a"), Num(1)>>],
      [has_ret |-> TRUE, ret |-> <<BinOp("Plus", Name("a"), Name("b")), Name("a"),
                                  Boole(FALSE)>>] }
      \cup {[has_ret |-> TRUE, ret |-> <<e>>] : e \in FormExprs}

NextForms ==
    \/ Compile
    \/ \E stat \in FormStats : VisitStat(stat)
    \/ \E r \in FormRets : FinishBlock(r)

SpecForms == Init /\ [][NextForms]_vars

\* ----------------------------------------------- universe of predicates
\* local c = P for predicates P of bounded depth: the six comparisons on
\* number pairs in the three orders, variables and boolean literals under
\* and, or, not, and comparisons with a predicate as operand; optionally
\* after `local a = true`, which makes a a local
NumPairs == {<<1, MaxNum>>, <<MaxNum, 1>>, <<1, 1>>}
Cmps == {BinOp(flag, Num(p[1]), Num(p[2])) : flag \in CmpFlags, p \in NumPairs}
BoolSmall ==
    { Name("a"), Name("b"), Boole(TRUE), Boole(FALSE),
      BinOp("LESS", Num(1), Num(MaxNum)), BinOp("GEQ", Num(1), Num(MaxNum)) }
BoolLits == BoolSmall \cup {UnaryOp("Not", x) : x \in BoolSmall}
BoolBin1 == {BinOp(op, x, y) : op \in {"AND", "OR"}, x \in BoolLits, y \in BoolLits}
BoolCore ==
    {BinOp(op, x, y) :
        op \in {"AND", "OR"},
        x \in {Name("a"), UnaryOp("Not", Name("b")), BinOp("GREATER", Num(1), Num(MaxNum))},
        y \in {Name("b"), UnaryOp("Not", Name("a"))}}
BoolBin2 ==
    {BinOp(op, x, y) : op \in {"AND", "OR"}, x \in BoolCore,
                       y \in {Name("b"), UnaryOp("Not", Name("a"))}}
      \cup {BinOp(op, y, x) : op \in {"AND", "OR"}, x \in BoolCore,
                              y \in {Name("b"), UnaryOp("Not", Name("a"))}}
      \cup {UnaryOp("Not", x) : x \in BoolCore \cup Cmps}
BoolNested ==
    { BinOp("EQ", BinOp("LESS", Num(1), Num(MaxNum)), Boole(TRUE)),
      BinOp("EQ", BinOp("LESS", Name("a"), Name("b")), Name("a")),
      BinOp("NEQ", UnaryOp("Not", Name("a")), Name("b")) }
BoolExprs ==
    Cmps \cup {UnaryOp("Not", x) : x \in BoolSmall} \cup BoolBin1 \cup BoolBin2
         \cup BoolNested

BoolPrelude == AssignLocal(<<"a">>, <<Boole(TRUE)>>)
BoolStats == {AssignLocal(<<"c">>, <<e>>) : e \in BoolExprs}

NextBool ==
    \/ Compile
    \/ VisitStat(BoolPrelude)
    \/ \E stat \in BoolStats :
          /\ \A i \in 1..Len(unit) : unit[i] = BoolPrelude
          /\ VisitStat(stat)
    \/ FinishBlock([has_ret |-> FALSE, ret |-> <<>>])

SpecBool == Init /\ [][NextBool]_vars
\* ------------------------------------------------- a generator used twice
\* Programs for a CodeGen that compiles one unit after another: a is made a
\* local or assigned as a global, and read by a declaration or a return
AgainStats ==
    { AssignLocal(<<"a">>, <<Num(1)>>),
      Assign(<<VarName("a")>>, <<Num(1)>>),
      AssignLocal(<<"b">>, <<Name("a")>>) }

AgainRets ==
    { [has_ret |-> FALSE, ret |-> <<>>],
      [has_ret |-> TRUE, ret |-> <<Name("a")>>] }

\* compile called on a CodeGen whose earlier compile has returned:
\* visit_function starts from a new ResourceAlloc and a new instruction
\* vector, symbol_table is the field as the earlier call left it
CompileAgain ==
    /\ pc = "returned"
    /\ \E entered \in {enter_function([CG EXCEPT !.allocs = <<>>], <<>>)} :
       /\ allocs' = entered.allocs
       /\ symbol_table' = entered.symbol_table
    /\ instructions' = <<>>
    /\ unit' = <<>>
    /\ ret' = [has_ret |-> FALSE, ret |-> <<>>]
    /\ result' = "none"
    /\ failed' = NoFailure
    /\ pc' = "block"
    /\ UNCHANGED root_function

NextAgain ==
    \/ Compile
    \/ \E stat \in AgainStats : VisitStat(stat)
    \/ \E r \in AgainRets : FinishBlock(r)
    \/ CompileAgain

SpecAgain == Init /\ [][NextAgain]_vars


\* ------------------------------------------------------------ properties
Range(seq) == {seq[i] : i \in 1..Len(seq)}

NoDuplicates(seq) == \A i, j \in 1..Len(seq) : seq[i] = seq[j] => i = j

IsPrefix(s, t) == Len(s) <= Len(t) /\ \A i \in 1..Len(s) : s[i] = t[i]

\* a chunk and every prototype nested in it
RECURSIVE ChunkTree(_)
ChunkTree(chunk) ==
    {chunk} \cup UNION {ChunkTree(c) : c \in Range(chunk.function_prototypes)}

\* the functions compiled successfully so far: the whole tree once compile
\* returned Ok, else the prototypes already installed in the root allocator
Finished ==
    IF result = "Ok" THEN ChunkTree(root_function)
    ELSE IF allocs # <<>>
    THEN UNION {ChunkTree(c) : c \in Range(allocs[1].function_alloc)}
    ELSE {}

\* instruction i of chunk f is one of the upvalue bindings after a CLOSURE
IsBinding(f, i) ==
    \E j \in 1..(i - 1) :
        /\ f.instructions[j].op = "CLOSURE"
        /\ i - j <= f.function_prototypes[f.instructions[j].b + 1].upvalue_num

\* the registers instruction x reads or writes (Lua 5.1 operand roles)
RegOperands(x) ==
    CASE x.op \in {"LOADK", "LOADBOOL", "GETUPVAL", "GETGLOBAL", "SETGLOBAL",
                   "TEST", "CLOSURE"} -> {x.a}
      [] x.op = "MOVE" -> {x.a, x.b}
      [] x.op = "LOADNIL" -> {x.a, x.a + x.b}
      [] x.op \in {"ADD", "SUB", "MUL", "DIV"} -> {x.a, x.b, x.c}
      [] x.op \in {"EQ", "LT", "LE"} -> {x.b, x.c}
      [] x.op = "CALL" -> {x.a} \cup (x.a + 1)..(x.a + x.b - 1)
                                 \cup x.a..(x.a + x.c - 2)
      [] x.op = "RETURN" -> x.a..(x.a + x.b - 2)
      [] OTHER -> {}

\* C1: in every function compiled successfully, every register operand of
\* every emitted instruction is below the function's stack_size; this
\* includes the argument registers func_pos + 1 .. func_pos + n of a call
\* (the upvalue bindings after a CLOSURE are settled by C3)
C1_RegistersBelowStackSize ==
    \A f \in Finished :
        \A i \in 1..Len(f.instructions) :
            ~IsBinding(f, i) =>
                \A r \in RegOperands(f.instructions[i]) : r < f.stack_size

\* C2: in the instruction vector of every compiled function no Label marker
\* remains and every JMP at index pc with displacement sbx has
\* 0 <= pc + 1 + sbx < number of instructions
C2_JumpsInRange ==
    \A f \in Finished :
        \A i \in 1..Len(f.instructions) :
            LET x == f.instructions[i] IN
            /\ x.mode # "Label"
            /\ x.op = "JMP" => (0 <= i + x.b /\ i + x.b < Len(f.instructions))

\* a compiled chunk holds a JMP, in the root and in a nested prototype
C2_Witness ==
    /\ result = "Ok"
    /\ \E x \in Range(root_function.instructions) : x.op = "JMP"
    /\ \E f \in ChunkTree(root_function) \ {root_function} :
           \E x \in Range(f.instructions) : x.op = "JMP"

RootPool == IF allocs # <<>> THEN allocs[1].const_alloc ELSE <<>>

\* C4: the constant pool never holds two equal values, a step only appends
\* to it (an index once returned keeps its value), and the index an
\* instruction got for a literal or a global name denotes that value, the
\* first index the value was given
C4_ConstantPool ==
    [][(pc = "block" /\ result' \in {"none", "Ok"}) =>
         LET old == RootPool
             new == IF pc' = "block" THEN RootPool' ELSE root_function'.constants
             stat == unit'[Len(unit')]
             last == instructions'[Len(instructions')] IN
         /\ IsPrefix(old, new)
         /\ NoDuplicates(new)
         /\ \A f \in Finished' : NoDuplicates(f.constants)
         /\ \A i \in (Len(instructions) + 1)..Len(instructions') :
                instructions'[i].op \in {"LOADK", "GETGLOBAL", "SETGLOBAL"} =>
                    instructions'[i].b < Len(new)
         /\ (unit' # unit /\ stat.k = "AssignLocal" /\ Len(stat.names) = 1
                /\ stat.exprs[1].k = "Num") =>
                /\ last.op = "LOADK"
                /\ new[last.b + 1] = Real(stat.exprs[1].num)
                /\ Real(stat.exprs[1].num) \in Range(old) =>
                       last.b = IndexOf(old, Real(stat.exprs[1].num))
         /\ (unit' # unit /\ stat.k = "Assign" /\ Len(stat.vars) = 1
                /\ last.op = "SETGLOBAL") =>
                /\ new[last.b + 1] = Str(stat.vars[1].name)
                /\ Str(stat.vars[1].name) \in Range(old) =>
                       last.b = IndexOf(old, Str(stat.vars[1].name))
    ]_vars

\* a literal and a global name were pushed a second time and got the index
\* of the first push
C4_Witness ==
    /\ pc = "block" /\ Len(unit) = 2
    /\ unit[1] = AssignLocal(<<"b", "a">>, <<Num(1), Num(MaxNum)>>)
    /\ unit[2] = AssignLocal(<<"a">>, <<Num(MaxNum)>>)
    /\ Len(RootPool) = 2
    /\ instructions[Len(instructions)].b = 1

\* C5: the upvalue table of a function has no duplicate name, upvalue_num
\* counts its distinct names, and every read of a captured name got the
\* slot of that name with the descriptor the table still holds at the end
\* (descriptors are only appended, never changed)
C5_UpvalueTable ==
    \A f \in Finished :
        /\ NoDuplicates(UpvalueNames(f.upvalues))
        /\ f.upvalue_num = Cardinality(Range(UpvalueNames(f.upvalues)))
        /\ \A i \in 1..Len(f.reads) :
               LET r == f.reads[i] IN
               /\ r.slot < Len(f.upvalues)
               /\ f.upvalues[r.slot + 1] = r.desc
               /\ r.desc.name = r.name
               /\ \A j \in 1..(i - 1) :
                      f.reads[j].name = r.name => f.reads[j].slot = r.slot

\* a finished function read the same captured name twice, and another name
\* in between
C5_Witness ==
    \E f \in Finished :
        \E i, j \in 1..Len(f.reads) :
            /\ i + 1 < j
            /\ f.reads[i].name = f.reads[j].name
            /\ f.reads[i + 1].name # f.reads[i].name
            /\ f.upvalue_num >= 2

\* C6: for a function X nested in P, every descriptor of X is for a name
\* held by P: an immediate one names the register of a local of P, a relayed
\* one (is_immediate false) names the upvalue slot of the same name in P;
\* X holds one descriptor per name and the root function holds none
C6_UpvalueChain ==
    /\ result = "Ok" => root_function.upvalues = <<>>
    /\ \A P \in Finished :
         \A X \in Range(P.function_prototypes) :
            /\ NoDuplicates(UpvalueNames(X.upvalues))
            /\ \A j \in 1..Len(X.upvalues) :
                   LET d == X.upvalues[j] IN
                   IF d.is_immediate
                   THEN /\ d.source_slot < Len(P.regs)
                        /\ P.regs[d.source_slot + 1] = d.name
                   ELSE /\ d.source_slot < Len(P.upvalues)
                        /\ P.upvalues[d.source_slot + 1].name = d.name
                        /\ d.name \notin Range(P.regs)

\* a function two boundaries below the root read a local of the root: it
\* holds a relayed descriptor, its parent an immediate one
C6_Witness ==
    /\ result = "Ok"
    /\ \E P \in Range(root_function.function_prototypes) :
         \E X \in Range(P.function_prototypes) :
            \E j \in 1..Len(X.upvalues) :
               /\ ~X.upvalues[j].is_immediate
               /\ \E r \in Range(X.reads) : r.name = X.upvalues[j].name
               /\ P.upvalues[X.upvalues[j].source_slot + 1].is_immediate
               /\ \E k \in 1..Len(X.upvalues) : X.upvalues[k].is_immediate

\* C7: the instruction vector of every compiled function is non-empty and
\* ends with RETURN 0, 1, also after an explicit return
C7_EndsWithReturn ==
    \A f \in Finished :
        /\ Len(f.instructions) >= 1
        /\ f.instructions[Len(f.instructions)] = iABx("RETURN", 0, 1)

\* the root block ended with `return a, 1` and holds a nested prototype that
\* also returns explicitly
C7_Witness ==
    /\ result = "Ok" /\ ret.has_ret /\ Len(ret.ret) = 2
    /\ Len(root_function.instructions) >= 2
    /\ root_function.instructions[Len(root_function.instructions) - 1].op = "RETURN"
    /\ \E f \in Range(root_function.function_prototypes) :
           /\ Len(f.instructions) >= 2
           /\ f.instructions[Len(f.instructions) - 1].op = "RETURN"

\* C8: when the visit of an expression fails with error E the walk stops
\* there (nothing is allocated after the failure) and compile returns E
C8_FirstErrorAborts ==
    result \in {"UndefinedSymbol", "SyntexError"} =>
        /\ result = failed.e
        /\ allocs[1] = failed.allocs[1]

\* C9: if compile returns Err, root_function is what it was before the call
\* (the empty chunk of CodeGen::new)
C9_NoPartialOutput ==
    result \in {"UndefinedSymbol", "SyntexError"} => root_function = NewFunctionChunk

\* compile returned Err after instructions were emitted and constants
\* allocated for the root function
C9_Witness ==
    /\ result \in {"UndefinedSymbol", "SyntexError"}
    /\ Len(unit) = 2
    /\ instructions # <<>>
    /\ allocs[1].const_alloc # <<>>

Emitted(before, after) == SubSeq(after, Len(before) + 1, Len(after))

\* instruction x writes register r
Writes(x, r) ==
    CASE x.op \in {"LOADK", "LOADBOOL", "GETUPVAL", "GETGLOBAL", "MOVE", "CLOSURE",
                   "ADD", "SUB", "MUL", "DIV"} -> x.a = r
      [] x.op = "CALL" -> r \in x.a..(x.a + x.c - 2)
      [] OTHER -> FALSE

\* the instructions new, emitted for expression e in generator cg, leave the
\* value of e in register r: the last of them writes r (for a function
\* definition the CLOSURE, which only upvalue bindings follow); a local
\* variable that lives in r needs no instruction
ValueIn(cg, e, new, r) ==
    IF new = <<>>
    THEN /\ e.k = "Var" /\ e.var.vk = "Name"
         /\ lookup(cg.symbol_table, e.var.name) =
                [scope |-> "Local", depth |-> 0, pos |-> r]
    ELSE IF e.k = "FunctionDef"
    THEN \E j \in 1..Len(new) :
            /\ new[j].op = "CLOSURE" /\ new[j].a = r
            /\ \A k \in (j + 1)..Len(new) : new[k].op \in {"MOVE", "GETUPVAL"}
    ELSE Writes(new[Len(new)], r)

\* every expression of exprlist from the i-th on, visited in turn with
\* Expect::Reg(start + i), returns that register and leaves its value there
RECURSIVE ExpectRegHolds(_, _, _, _, _)
ExpectRegHolds(cg, exprlist, i, start, ins) ==
    IF i > Len(exprlist) THEN TRUE
    ELSE LET v == visit_expr(cg, exprlist[i], ins, start + i - 1) IN
         \/ Failed(v)
         \/ /\ v.reg = start + i - 1
            /\ ValueIn(cg, exprlist[i], Emitted(ins, v.ins), start + i - 1)
            /\ ExpectRegHolds(v.cg, exprlist, i + 1, start, v.ins)

\* C11: for every expression form, visit_expr called with Expect::Reg(r)
\* returns r and the instructions it emits leave the value in r; checked
\* where `return e1, ..., en` visits each ei with Expect::Reg(start + i)
\* (a call argument is visited by the same visit_expr with
\* Expect::Reg(func_pos + i))
C11_ExpectReg ==
    [][(pc = "block" /\ pc' = "returned" /\ ret'.has_ret /\ result' = "Ok") =>
         ExpectRegHolds(reg_push_n(CG, Len(ret'.ret)), ret'.ret, 1,
                        reg_size(CG), instructions)
    ]_vars

\* the B field of the CALL of a call with these arguments
ArgField(args) ==
    IF Len(args) = 0 THEN 1
    ELSE IF args[Len(args)].k = "FunctionCall" THEN 0
    ELSE Len(args) + 1

\* the (B, C) fields of the CALLs of call x, compiled with return field c,
\* in the order they are emitted: the calls among the arguments first (the
\* last argument with RetExpect::Indeterminate, the others with
\* RetExpect::Num(1)), then the call itself
RECURSIVE CallFields(_, _)
RECURSIVE ArgCallFields(_, _)
ArgCallFields(args, i) ==
    IF i > Len(args) THEN <<>>
    ELSE (IF args[i].k = "FunctionCall"
          THEN CallFields(args[i], IF i = Len(args) THEN 0 ELSE 2)
          ELSE <<>>) \o ArgCallFields(args, i + 1)

CallFields(x, c) == Append(ArgCallFields(x.args, 1), [b |-> ArgField(x.args), c |-> c])

\* the CALL instructions of a stream, in order
RECURSIVE CallsIn(_)
CallsIn(ins) ==
    IF ins = <<>> THEN <<>>
    ELSE (IF Head(ins).op = "CALL" THEN <<Head(ins)>> ELSE <<>>) \o CallsIn(Tail(ins))

\* C12: a statement whose right-hand side is one call with n arguments emits
\* exactly one CALL per call of the expression; the CALL of the call itself
\* comes last, is CALL func_pos, B, C with B = 1 if n = 0, B = 0 if the last
\* argument is a call, B = n + 1 otherwise, and C = k + 1 for the k results
\* asked for; a call in last argument position gets C = 0 and its CALL
\* precedes the outer one
C12_CallFields ==
    [][(pc = "block" /\ pc' = "block" /\ unit' # unit) =>
         LET stat == unit'[Len(unit')]
             targets == IF stat.k = "Assign" THEN Len(stat.vars) ELSE Len(stat.names)
             calls == CallsIn(Emitted(instructions, instructions')) IN
         (Len(stat.exprs) = 1 /\ stat.exprs[1].k = "FunctionCall") =>
             LET want == CallFields(stat.exprs[1], targets + 1) IN
             /\ Len(calls) = Len(want)
             /\ \A i \in 1..Len(want) :
                    calls[i].b = want[i].b /\ calls[i].c = want[i].c
             /\ calls[Len(calls)].a = reg_size(CG)
             /\ \A i \in 1..(Len(calls) - 1) : calls[i].a > reg_size(CG)
    ]_vars

\* `local a = g(1, g())` was compiled: CALL g_pos, 1, 0 and then
\* CALL f_pos, 0, 2
C12_Witness ==
    /\ pc = "block"
    /\ unit = <<AssignLocal(<<"a">>, <<Call(<<Num(1), Call(<<>>)>>)>>)>>
    /\ Len(instructions) >= 2
    /\ instructions[Len(instructions) - 1] = iABC("CALL", 2, 1, 0)
    /\ instructions[Len(instructions)] = iABC("CALL", 0, 0, 2)

\* C13: for m >= 2 targets and a right-hand side that is one call, the call
\* is compiled once with C = m + 1 and no LOADNIL is emitted; the i-th target
\* (from 0) receives register func_pos + i: a local name is bound to that
\* register without a MOVE, an assigned local gets MOVE pos, func_pos + i and
\* a global SETGLOBAL func_pos + i, k
C13_CallSpread ==
    [][(pc = "block" /\ pc' = "block" /\ unit' # unit) =>
         LET stat == unit'[Len(unit')]
             m == IF stat.k = "Assign" THEN Len(stat.vars) ELSE Len(stat.names)
             new == Emitted(instructions, instructions')
             calls == CallsIn(new)
             func_pos == reg_size(CG) IN
         (m >= 2 /\ Len(stat.exprs) = 1 /\ stat.exprs[1].k = "FunctionCall") =>
             /\ Len(calls) = Len(CallFields(stat.exprs[1], m + 1))
             /\ Cardinality({i \in 1..Len(new) :
                    new[i].op = "CALL" /\ new[i].a = func_pos}) = 1
             /\ calls[Len(calls)] =
                    iABC("CALL", func_pos, ArgField(stat.exprs[1].args), m + 1)
             /\ \A i \in 1..Len(new) : new[i].op # "LOADNIL"
             /\ stat.k = "AssignLocal" =>
                    /\ new[Len(new)].op = "CALL"
                    /\ \A i \in 1..Len(new) : new[i].op # "MOVE"
                    /\ \A i \in 1..m :
                          /\ lookup(symbol_table', stat.names[i]) =
                                 [scope |-> "Local", depth |-> 0,
                                  pos |-> func_pos + i - 1]
                          /\ allocs'[1].reg_alloc[func_pos + i] = stat.names[i]
             /\ stat.k = "Assign" =>
                    /\ Len(new) > m /\ new[Len(new) - m].op = "CALL"
                    /\ \A i \in 1..m :
                          LET x == new[Len(new) - m + i]
                              sym == lookup(symbol_table, stat.vars[i].name) IN
                          IF sym.scope = "Local"
                          THEN x = iABx("MOVE", sym.pos, func_pos + i - 1)
                          ELSE /\ x = iABx("SETGLOBAL", func_pos + i - 1, x.b)
                               /\ RootPool'[x.b + 1] = Str(stat.vars[i].name)
    ]_vars

\* `local b, a = g(1)` was compiled: CALL 0, 2, 3 with b at 0 and a at 1; and
\* `a, g = g(1, 1, 1)` with a local and g global
C13_Witness ==
    /\ pc = "block" /\ Len(unit) = 2
    /\ unit[1] = AssignLocal(<<"b", "a">>, <<Call(<<Num(1)>>)>>)
    /\ unit[2] = Assign(<<VarName("a"), VarName("g")>>,
                        <<Call(<<Num(1), Num(1), Num(1)>>)>>)
    /\ instructions[3] = iABC("CALL", 0, 2, 3)
    /\ symbol_table.frames[1]["b"] = 0 /\ symbol_table.frames[1]["a"] = 1
    /\ instructions[Len(instructions) - 1] = iABx("MOVE", 1, 3)
    /\ instructions[Len(instructions)].op = "SETGLOBAL"
    /\ instructions[Len(instructions)].a = 4

\* the targets of an assignment statement
Targets(stat) == IF stat.k = "Assign" THEN stat.vars ELSE stat.names

\* C14: adjust_list returns the targets unchanged and as many expressions as
\* targets; with more expressions than targets it only cuts the list (no
\* instruction, no register, no constant), and the statement compiles to
\* exactly what the statement without the surplus expressions compiles to
C14_Truncation ==
    [][(pc = "block" /\ pc' = "block" /\ unit' # unit) =>
         LET stat == unit'[Len(unit')]
             m == Len(Targets(stat))
             adj == adjust_list(CG, Targets(stat), stat.exprs, instructions)
             cut == visit_stat(CG, [stat EXCEPT !.exprs = SubSeq(@, 1, m)],
                               instructions) IN
         /\ adj.varlist = Targets(stat)
         /\ Len(adj.exprlist) = m
         /\ m < Len(stat.exprs) =>
                /\ adj.exprlist = SubSeq(stat.exprs, 1, m)
                /\ adj.cg = CG /\ adj.ins = instructions
                /\ instructions' = cut.ins
                /\ allocs' = cut.cg.allocs
                /\ symbol_table' = cut.cg.symbol_table
                /\ \A i \in (m + 1)..Len(stat.exprs) :
                       stat.exprs[i].k = "Num" =>
                           (Real(stat.exprs[i].num) \in Range(RootPool')
                               => Real(stat.exprs[i].num) \in Range(RootPool))
    ]_vars

\* `a = h, 1` was compiled: only h is read and reaches SETGLOBAL
C14_Witness ==
    /\ pc = "block"
    /\ unit = <<Assign(<<VarName("a")>>, <<Name("h"), Num(1)>>)>>
    /\ instructions = <<iABx("GETGLOBAL", 0, 0), iABx("SETGLOBAL", 0, 1)>>
    /\ RootPool = <<Str("h"), Str("a")>>
    /\ Len(allocs[1].reg_alloc) = 1

\* C15: with d = |targets| - |exprs| > 0 and a right-hand side that is not
\* one call, the instructions of the explicit expressions come first, then
\* LOADNIL first, d - 1, where first is the register after those the
\* explicit expressions took
C15_NilAfterExprs ==
    [][(pc = "block" /\ pc' = "block" /\ unit' # unit) =>
         LET stat == unit'[Len(unit')]
             d == Len(Targets(stat)) - Len(stat.exprs)
             explicit == visit_exprlist(CG, stat.exprs, instructions)
             new == Emitted(instructions, instructions')
             n == Len(explicit.ins) - Len(instructions) IN
         (d > 0 /\ ~(Len(stat.exprs) = 1 /\ stat.exprs[1].k = "FunctionCall")) =>
             /\ Len(new) > n
             /\ SubSeq(new, 1, n) = Emitted(instructions, explicit.ins)
             /\ new[n + 1] = iABx("LOADNIL", reg_size(explicit.cg), d - 1)
    ]_vars

\* the indices of reg_list whose source is not temporary, in order
RECURSIVE NonTemp(_, _)
NonTemp(reg_list, i) ==
    IF i > Len(reg_list) THEN <<>>
    ELSE (IF reg_list[i].temp THEN <<>> ELSE <<i>>) \o NonTemp(reg_list, i + 1)

\* C16: in a local declaration, after the right-hand sides are evaluated, a
\* name whose source is temporary takes the source register (re-bound to the
\* name, no MOVE, no register); a name whose source is not temporary (the
\* read of a local variable) takes one fresh register and one
\* MOVE new_reg, source_reg; nothing else is emitted or allocated
C16_LocalRename ==
    [][(pc = "block" /\ pc' = "block" /\ unit' # unit) =>
         LET stat == unit'[Len(unit')] IN
         stat.k = "AssignLocal" =>
             LET adj == adjust_list(CG, stat.names, stat.exprs, instructions)
                 lst == visit_exprlist(adj.cg, adj.exprlist, adj.ins)
                 moved == NonTemp(lst.reg_list, 1)
                 tail == Emitted(lst.ins, instructions')
                 base == reg_size(lst.cg) IN
             /\ IsPrefix(lst.ins, instructions')
             /\ Len(tail) = Len(moved)
             /\ Len(allocs'[1].reg_alloc) = base + Len(moved)
             /\ \A k \in 1..Len(moved) :
                    /\ tail[k] = iABx("MOVE", base + k - 1, lst.reg_list[moved[k]].reg)
                    /\ allocs'[1].reg_alloc[base + k] = stat.names[moved[k]]
                    /\ symbol_table'.frames[1][stat.names[moved[k]]] = base + k - 1
             /\ \A i \in 1..Len(stat.names) :
                    /\ lst.reg_list[i].temp =>
                          /\ allocs'[1].reg_alloc[lst.reg_list[i].reg + 1] = stat.names[i]
                          /\ symbol_table'.frames[1][stat.names[i]] = lst.reg_list[i].reg
                    /\ ~lst.reg_list[i].temp <=>
                          /\ adj.exprlist[i].k = "Var"
                          /\ adj.exprlist[i].var.vk = "Name"
                          /\ lookup(symbol_table, adj.exprlist[i].var.name).scope = "Local"
    ]_vars

\* `local a = 1` and then `local b, a = a, 1` were compiled: b got a fresh
\* register and a MOVE, a was re-bound to the register of the literal
C16_Witness ==
    /\ pc = "block"
    /\ unit = <<AssignLocal(<<"a">>, <<Num(1)>>),
                AssignLocal(<<"b", "a">>, <<Name("a"), Num(1)>>)>>
    /\ instructions = <<iABx("LOADK", 0, 0), iABx("LOADK", 1, 0), iABx("MOVE", 2, 0)>>
    /\ allocs[1].reg_alloc = <<"a", "a", "b">>
    /\ symbol_table.frames[1]["a"] = 1 /\ symbol_table.frames[1]["b"] = 2

\* C17: an arithmetic binop visited without a hint (the right-hand side of
\* `local a = l op r`) emits, after the instructions of both operands, one
\* ADD/SUB/MUL/DIV dest, left_reg, right_reg; dest is left_reg when the left
\* operand is temporary, and then no register is allocated beyond those of
\* the operands, otherwise dest is exactly one fresh register; the result is
\* temporary, so the local takes dest without a MOVE
C17_ArithDest ==
    [][(pc = "block" /\ pc' = "block" /\ unit' # unit) =>
         LET stat == unit'[Len(unit')] IN
         (/\ stat.k = "AssignLocal"
          /\ Len(stat.names) = 1 /\ Len(stat.exprs) = 1
          /\ stat.exprs[1].k = "BinOp"
          /\ stat.exprs[1].flag \in {"Plus", "Minus", "Mul", "Div"}) =>
             LET e == stat.exprs[1]
                 l == visit_expr(CG, e.left, instructions, NoExpect)
                 r == visit_expr(l.cg, e.right, l.ins, NoExpect)
                 new == Emitted(r.ins, instructions')
                 dest == IF l.temp THEN l.reg ELSE reg_size(r.cg)
                 op == CASE e.flag = "Plus" -> "ADD" [] e.flag = "Minus" -> "SUB"
                         [] e.flag = "Mul" -> "MUL" [] e.flag = "Div" -> "DIV" IN
             /\ IsPrefix(r.ins, instructions')
             /\ new = <<iABC(op, dest, l.reg, r.reg)>>
             /\ Len(allocs'[1].reg_alloc) = reg_size(r.cg) + (IF l.temp THEN 0 ELSE 1)
             /\ allocs'[1].reg_alloc[dest + 1] = stat.names[1]
             /\ symbol_table'.frames[1][stat.names[1]] = dest
    ]_vars

\* `local a = 1 + MaxNum` reused the register of the literal 1 as dest, and
\* `local a = a - 1` after it, whose left operand is a local, took a fresh one
C17_Witness ==
    /\ pc = "block"
    /\ unit = <<AssignLocal(<<"a">>, <<BinOp("Plus", Num(1), Num(MaxNum))>>),
                AssignLocal(<<"a">>, <<BinOp("Minus", Name("a"), Num(1))>>)>>
    /\ instructions = <<iABx("LOADK", 0, 0), iABx("LOADK", 1, 1), iABC("ADD", 0, 0, 1),
                        iABx("LOADK", 2, 0), iABC("SUB", 3, 0, 2)>>
    /\ allocs[1].reg_alloc = <<"a", NoName, NoName, "a">>

\* not (x <= y or u == v), the shape of `not (2 <= 3 or a == b)`
IsNotOrExample(e) ==
    /\ e.k = "UnaryOp" /\ e.flag = "Not"
    /\ e.left.k = "BinOp" /\ e.left.flag = "OR"
    /\ e.left.left.k = "BinOp" /\ e.left.left.flag = "LEQ"
    /\ e.left.right.k = "BinOp" /\ e.left.right.flag = "EQ"

\* the index of the one instruction of ins with opcode op
TheOp(ins, op) == CHOOSE i \in 1..Len(ins) : ins[i].op = op

\* where control is after the comparison at index i of ins when the
\* comparison is true (Lua 5.1: if ((RK(B) op RK(C)) ~= A) then pc++, the
\* instruction after a comparison being the JMP)
OnTrue(ins, i) == IF ins[i].a = 1 THEN i + 2 + ins[i + 1].b ELSE i + 2

\* what the example's stream has whatever the polarity of its LE: one LE
\* and one EQ, each followed by a JMP, exactly two JMPs, and the pair
\* LOADBOOL c,0,1; LOADBOOL c,1,0 at its end, c the register of the local
BooleanShape(new, c) ==
    /\ Cardinality({i \in 1..Len(new) : new[i].op = "LE"}) = 1
    /\ Cardinality({i \in 1..Len(new) : new[i].op = "EQ"}) = 1
    /\ Cardinality({i \in 1..Len(new) : new[i].op = "JMP"}) = 2
    /\ new[TheOp(new, "LE") + 1].op = "JMP"
    /\ new[TheOp(new, "EQ") + 1].op = "JMP"
    /\ TheOp(new, "LE") < TheOp(new, "EQ")
    /\ new[Len(new) - 1] = iABC("LOADBOOL", c, 0, 1)
    /\ new[Len(new)] = iABC("LOADBOOL", c, 1, 0)

\* C18 as stated: in the stream of `local c = not (x <= y or u == v)` the LE
\* has polarity field 0 and a true comparison falls through to the EQ test
\* (the instructions after the JMP that follows the LE); two JMPs; the
\* stream ends LOADBOOL c,0,1; LOADBOOL c,1,0
C18_PolarityZero ==
    [][(pc = "block" /\ pc' = "block" /\ unit' # unit) =>
         LET stat == unit'[Len(unit')] IN
         (/\ stat.k = "AssignLocal"
          /\ Len(stat.names) = 1 /\ Len(stat.exprs) = 1
          /\ IsNotOrExample(stat.exprs[1])) =>
             LET new == Emitted(instructions, instructions')
                 c == symbol_table'.frames[1][stat.names[1]]
                 le == TheOp(new, "LE") IN
             /\ BooleanShape(new, c)
             /\ new[le].a = 0
             /\ OnTrue(new, le) = le + 2
    ]_vars

\* C18, amended: the LE has polarity field 1, so that a true comparison
\* takes the JMP after it, which leads to the false-materializer
\* LOADBOOL c,0,1 and never to the EQ test or to the true-materializer; the
\* EQ has polarity field 0 and its JMP leads to the true-materializer
\* LOADBOOL c,1,0; the stream has exactly two JMPs and ends
\* LOADBOOL c,0,1; LOADBOOL c,1,0
C18_BooleanExample ==
    [][(pc = "block" /\ pc' = "block" /\ unit' # unit) =>
         LET stat == unit'[Len(unit')] IN
         (/\ stat.k = "AssignLocal"
          /\ Len(stat.names) = 1 /\ Len(stat.exprs) = 1
          /\ IsNotOrExample(stat.exprs[1])) =>
             LET new == Emitted(instructions, instructions')
                 c == symbol_table'.frames[1][stat.names[1]]
                 le == TheOp(new, "LE")
                 eq == TheOp(new, "EQ") IN
             /\ BooleanShape(new, c)
             /\ new[le].a = 1
             /\ OnTrue(new, le) = Len(new) - 1
             /\ new[eq].a = 0
             /\ eq + 2 + new[eq + 1].b = Len(new)
             /\ eq + 2 = Len(new) - 1
    ]_vars

\* `local a = not (1 <= MaxNum or a == b)` was compiled as the first statement
C18_Witness ==
    /\ pc = "block"
    /\ Len(unit) = 1
    /\ unit[1].k = "AssignLocal" /\ IsNotOrExample(unit[1].exprs[1])
    /\ Len(instructions) = 10
    /\ instructions[3] = iABC("LE", 1, 1, 2)
    /\ instructions[4] = iAsBx("JMP", 0, 4)
    /\ instructions[7] = iABC("EQ", 0, 3, 4)
    /\ instructions[8] = iAsBx("JMP", 0, 1)
    /\ instructions[9] = iABC("LOADBOOL", 0, 0, 1)
    /\ instructions[10] = iABC("LOADBOOL", 0, 1, 0)

\* s without its repetitions: every value where it is first used
RECURSIVE FirstUse(_)
FirstUse(s) ==
    IF s = <<>> THEN <<>>
    ELSE <<Head(s)>> \o FirstUse(SelectSeq(Tail(s), LAMBDA x : x # Head(s)))

\* the right-hand sides of a statement that are compiled: the ones beyond
\* the number of targets are dropped
StatExprs(stat) ==
    IF stat.k = "Ret" \/ Len(stat.exprs) <= Len(Targets(stat)) THEN stat.exprs
    ELSE SubSeq(stat.exprs, 1, Len(Targets(stat)))

\* Source-text order, read off the AST alone.  Names(e): the names e reads
\* that are free in e, those read inside nested functions included;
\* Consts(e, L): the constants e uses in its own function, L the names that
\* are not global there; Defs(e): the function definitions directly in e.
RECURSIVE Names(_), ListNames(_, _), BlockNames(_, _, _)
Names(e) ==
    CASE e.k = "Var" -> <<e.var.name>>
      [] e.k = "BinOp" -> Names(e.left) \o Names(e.right)
      [] e.k = "UnaryOp" -> Names(e.left)
      [] e.k = "FunctionCall" -> Names(e.expr) \o ListNames(e.args, 1)
      [] e.k = "FunctionDef" -> BlockNames(e.body, Range(e.paras), 1)
      [] OTHER -> <<>>
ListNames(list, i) ==
    IF i > Len(list) THEN <<>> ELSE Names(list[i]) \o ListNames(list, i + 1)
BlockNames(block, bound, i) ==
    IF i > Len(block.stats)
    THEN IF block.has_ret
         THEN SelectSeq(ListNames(block.ret, 1), LAMBDA n : n \notin bound)
         ELSE <<>>
    ELSE LET stat == block.stats[i] IN
         SelectSeq(ListNames(StatExprs(stat), 1), LAMBDA n : n \notin bound)
           \o BlockNames(block,
                         IF stat.k = "AssignLocal"
                         THEN bound \cup Range(stat.names) ELSE bound,
                         i + 1)

RECURSIVE Consts(_, _), ListConsts(_, _, _)
Consts(e, L) ==
    CASE e.k = "Num" -> <<Real(e.num)>>
      [] e.k = "Var" -> IF e.var.name \in L THEN <<>> ELSE <<Str(e.var.name)>>
      [] e.k = "BinOp" -> Consts(e.left, L) \o Consts(e.right, L)
      [] e.k = "UnaryOp" -> Consts(e.left, L)
      [] e.k = "FunctionCall" -> Consts(e.expr, L) \o ListConsts(e.args, L, 1)
      [] OTHER -> <<>>
ListConsts(list, L, i) ==
    IF i > Len(list) THEN <<>>
    ELSE Consts(list[i], L) \o ListConsts(list, L, i + 1)

\* the constants of one statement: its right-hand sides, then the names of
\* its global targets
StatConsts(stat, L) ==
    ListConsts(StatExprs(stat), L, 1)
      \o (IF stat.k = "Assign"
          THEN LET globals == SelectSeq(stat.vars, LAMBDA v : v.name \notin L) IN
               [j \in 1..Len(globals) |-> Str(globals[j].name)]
          ELSE <<>>)

RECURSIVE BlockConsts(_, _, _)
BlockConsts(block, L, i) ==
    IF i > Len(block.stats)
    THEN IF block.has_ret THEN ListConsts(block.ret, L, 1) ELSE <<>>
    ELSE LET stat == block.stats[i] IN
         StatConsts(stat, L)
           \o BlockConsts(block,
                          IF stat.k = "AssignLocal"
                          THEN L \cup Range(stat.names) ELSE L,
                          i + 1)

\* the function definitions directly in e, each with the names that are
\* not global where it stands
RECURSIVE Defs(_, _), ListDefs(_, _, _), BlockDefs(_, _, _)
Defs(e, L) ==
    CASE e.k = "FunctionDef" -> <<[def |-> e, L |-> L]>>
      [] e.k = "BinOp" -> Defs(e.left, L) \o Defs(e.right, L)
      [] e.k = "UnaryOp" -> Defs(e.left, L)
      [] e.k = "FunctionCall" -> Defs(e.expr, L) \o ListDefs(e.args, L, 1)
      [] OTHER -> <<>>
ListDefs(list, L, i) ==
    IF i > Len(list) THEN <<>>
    ELSE Defs(list[i], L) \o ListDefs(list, L, i + 1)
BlockDefs(block, L, i) ==
    IF i > Len(block.stats)
    THEN IF block.has_ret THEN ListDefs(block.ret, L, 1) ELSE <<>>
    ELSE LET stat == block.stats[i] IN
         ListDefs(StatExprs(stat), L, 1)
           \o BlockDefs(block,
                        IF stat.k = "AssignLocal"
                        THEN L \cup Range(stat.names) ELSE L,
                        i + 1)

\* chunk is the prototype of the definition d.def: its constants in
\* first-use order, its upvalue descriptors in the order its body (nested
\* functions included) first reads a name of an enclosing function, its
\* nested prototypes in source-text order
RECURSIVE InSourceOrder(_, _)
InSourceOrder(chunk, d) ==
    LET inner == d.L \cup Range(d.def.paras)
        nested == BlockDefs(d.def.body, inner, 1) IN
    /\ chunk.para_num = Len(d.def.paras)
    /\ chunk.constants = FirstUse(BlockConsts(d.def.body, inner, 1))
    /\ UpvalueNames(chunk.upvalues)
         = FirstUse(SelectSeq(Names(d.def), LAMBDA n : n \in d.L))
    /\ Len(chunk.function_prototypes) = Len(nested)
    /\ \A j \in 1..Len(nested) :
           InSourceOrder(chunk.function_prototypes[j], nested[j])

\* C19: the output follows the source text.  A statement (or the return)
\* only appends to the instructions; the constant pool after it is the pool
\* before it followed by the constants the statement uses for the first
\* time, right-hand sides before global target names; the new prototypes
\* are those of its function definitions in source-text order, each in
\* source order itself, upvalue descriptors in first-capture order.  For
\* a, b = 2.5, 2 * 4; local c = (a + b) / 10.5 (numbers in tenths) the pool
\* is [2.5, 2, 4, "a", "b", 10.5] and the opcodes are LOADK, LOADK, LOADK,
\* MUL, SETGLOBAL a, SETGLOBAL b, GETGLOBAL, GETGLOBAL, ADD, LOADK, DIV,
\* RETURN
C19_SourceOrder ==
    [][pc = "block" =>
         LET finish == pc' = "returned"
             stat == IF finish THEN Ret(ret'.ret) ELSE unit'[Len(unit')]
             L == DOMAIN symbol_table.frames[1]
             body == IF finish
                     THEN SubSeq(instructions', 1, Len(instructions') - 1)
                     ELSE instructions'
             pool == IF finish THEN root_function'.constants ELSE RootPool'
             protos == IF finish THEN root_function'.function_prototypes
                       ELSE allocs'[1].function_alloc
             new == Emitted(allocs[1].function_alloc, protos)
             defs == ListDefs(StatExprs(stat), L, 1) IN
         /\ IsPrefix(instructions, body)
         /\ pool = FirstUse(RootPool \o StatConsts(stat, L))
         /\ IsPrefix(allocs[1].function_alloc, protos)
         /\ Len(new) = Len(defs)
         /\ \A j \in 1..Len(defs) : InSourceOrder(new[j], defs[j])
         /\ (finish /\ unit = <<GlobalArith1, GlobalArith2>> /\ ~ret'.has_ret) =>
               /\ pool = <<Real(25), Real(20), Real(40), Str("a"), Str("b"), Real(105)>>
               /\ [i \in 1..Len(instructions') |-> instructions'[i].op]
                    = <<"LOADK", "LOADK", "LOADK", "MUL", "SETGLOBAL", "SETGLOBAL",
                        "GETGLOBAL", "GETGLOBAL", "ADD", "LOADK", "DIV", "RETURN">>
               /\ instructions'[5].b = 3 /\ instructions'[6].b = 4
    ]_vars

\* the two statements of the example were compiled and the unit finished
C19_Witness ==
    /\ pc = "returned" /\ result = "Ok"
    /\ unit = <<GlobalArith1, GlobalArith2>>
    /\ ~ret.has_ret
    /\ Len(root_function.constants) = 6
    /\ root_function.instructions[4].op = "MUL"
    /\ root_function.instructions[11].op = "DIV"

\* the return expressions from the i-th on, each visited with
\* Expect::Reg(start + i), i counted from 0
RECURSIVE ReturnVisits(_, _, _, _, _)
ReturnVisits(cg, exprlist, i, start, ins) ==
    IF i > Len(exprlist) THEN [cg |-> cg, ins |-> ins]
    ELSE LET r == visit_expr(cg, exprlist[i], ins, start + i - 1) IN
         ReturnVisits(r.cg, exprlist, i + 1, start, r.ins)

\* C20: `return e1, ..., en` allocates exactly n fresh unnamed registers
\* start .. start + n - 1 above the registers in use, all of them before e1
\* is visited; then visits ei with Expect::Reg(start + i - 1); then emits one
\* RETURN start, n + 1 (the RETURN 0, 1 that closes the function follows).
\* With n = 0 no register is allocated and it emits RETURN 0, 1
C20_ReturnRegisters ==
    [][(pc = "block" /\ pc' = "returned" /\ ret'.has_ret /\ result' = "Ok") =>
         LET n == Len(ret'.ret)
             used == allocs[1].reg_alloc
             start == IF n > 0 THEN Len(used) ELSE 0
             allocated == [CG EXCEPT !.allocs[1].reg_alloc =
                                         used \o [i \in 1..n |-> NoName]]
             visited == ReturnVisits(allocated, ret'.ret, 1, start, instructions) IN
         /\ instructions' = visited.ins
                              \o <<iABx("RETURN", start, n + 1), iABx("RETURN", 0, 1)>>
         /\ root_function'.regs = Cur(visited.cg).reg_alloc
         /\ SubSeq(root_function'.regs, 1, Len(used) + n)
              = used \o [i \in 1..n |-> NoName]
         /\ n = 0 =>
              /\ root_function'.regs = used
              /\ Emitted(instructions, instructions')
                   = <<iABx("RETURN", 0, 1), iABx("RETURN", 0, 1)>>
    ]_vars

\* after `local a = 1`, `return a + b, a, false` took registers 1, 2, 3:
\* RETURN 1, 4
C20_Witness ==
    /\ pc = "returned" /\ result = "Ok"
    /\ unit = <<AssignLocal(<<"a">>, <<Num(1)>>)>>
    /\ ret = [has_ret |-> TRUE,
              ret |-> <<BinOp("Plus", Name("a"), Name("b")), Name("a"), Boole(FALSE)>>]
    /\ instructions[Len(instructions) - 1] = iABx("RETURN", 1, 4)
    /\ instructions[Len(instructions) - 2] = iABC("LOADBOOL", 3, 0, 0)
    /\ instructions[Len(instructions) - 3] = iABx("MOVE", 2, 0)
    /\ root_function.regs[1] = "a"
    /\ SubSeq(root_function.regs, 2, 4) = <<NoName, NoName, NoName>>

\* x is a call whose CALL is calls[j]: when its last argument is a call, the
\* CALL of that call is calls[j - 1] and its function register is the
\* function register of x plus the number of arguments of x; and so on down
\* the chain of last arguments
RECURSIVE LastArgContiguous(_, _, _)
LastArgContiguous(x, calls, j) ==
    (Len(x.args) >= 1 /\ x.args[Len(x.args)].k = "FunctionCall") =>
        /\ j > 1
        /\ calls[j - 1].a = calls[j].a + Len(x.args)
        /\ LastArgContiguous(x.args[Len(x.args)], calls, j - 1)

\* C21: when the last of n >= 1 arguments of a call is a call, the function
\* register of the inner call is func_pos + n of the outer call, whatever the
\* RetExpect of the outer call (Num(k) in `return f(..)` and in
\* `local b, a = f(..)`, Indeterminate for a call that is itself a last
\* argument)
C21_InnerCallRegister ==
    [][(pc = "block" /\ result' # "Err" /\ (unit' # unit \/ pc' = "returned")) =>
         LET exprs == IF pc' = "returned" THEN ret'.ret ELSE unit'[Len(unit')].exprs
             calls == CallsIn(Emitted(instructions, instructions')) IN
         (Len(exprs) = 1 /\ exprs[1].k = "FunctionCall") =>
             LastArgContiguous(exprs[1], calls, Len(calls))
    ]_vars

\* the arguments of x that are not calls write their own destination
\* register and need no other (literals, names); the callee is a name
RECURSIVE PlainCall(_)
PlainCall(x) ==
    /\ x.k = "FunctionCall"
    /\ x.expr.k = "Var"
    /\ \A i \in 1..Len(x.args) :
          \/ x.args[i].k \in {"Num", "Boole", "Var"}
          \/ PlainCall(x.args[i])

\* the registers the claim has call x reserve, x compiled under
\* RetExpect::Num(k) (k registers, func_pos among them) or under
\* RetExpect::Indeterminate (func_pos only), the calls among its arguments
\* included: the last argument is compiled under Indeterminate, the others
\* under Num(1)
RECURSIVE Reserved(_, _)
RECURSIVE ArgsReserved(_, _)
ArgsReserved(args, i) ==
    IF i > Len(args) THEN 0
    ELSE (IF args[i].k = "FunctionCall"
          THEN Reserved(args[i], IF i = Len(args) THEN Indeterminate ELSE 1)
          ELSE 0) + ArgsReserved(args, i + 1)

Reserved(x, expect_ret) ==
    (IF expect_ret = Indeterminate THEN 1 ELSE expect_ret) + ArgsReserved(x.args, 1)

\* C22: a call compiled under RetExpect::Num(k) reserves exactly the k
\* registers func_pos .. func_pos + k - 1, a call compiled under
\* RetExpect::Indeterminate only func_pos: a statement whose right-hand side
\* is one call with k targets, the arguments needing no temporaries, takes
\* func_pos at the register high-water mark and raises the mark by the
\* registers so reserved
C22_CallReserves ==
    [][(pc = "block" /\ pc' = "block" /\ unit' # unit) =>
         LET stat == unit'[Len(unit')]
             calls == CallsIn(Emitted(instructions, instructions')) IN
         (Len(stat.exprs) = 1 /\ PlainCall(stat.exprs[1])) =>
             /\ calls[Len(calls)].a = Len(allocs[1].reg_alloc)
             /\ Len(allocs'[1].reg_alloc)
                  = Len(allocs[1].reg_alloc) + Reserved(stat.exprs[1], Len(Targets(stat)))
    ]_vars

\* Lua 5.1, LOADNIL A B: R(A) := ... := R(B) := nil
NilRegisters(x) == x.a..x.b

\* C23: with d = |targets| - |exprs| > 0 and a right-hand side that is not
\* one call, the statement emits one LOADNIL, and the registers it sets to
\* nil, read as Lua 5.1 reads it, are exactly the d fresh registers
\* allocated for the missing values, wherever the first of them lies
C23_LoadNilRange ==
    [][(pc = "block" /\ pc' = "block" /\ unit' # unit) =>
         LET stat == unit'[Len(unit')]
             d == Len(Targets(stat)) - Len(stat.exprs)
             new == Emitted(instructions, instructions')
             nils == SelectSeq(new, LAMBDA x : x.op = "LOADNIL") IN
         (d > 0 /\ ~(Len(stat.exprs) = 1 /\ stat.exprs[1].k = "FunctionCall")) =>
             /\ Len(nils) = 1
             /\ nils[1].a >= Len(allocs[1].reg_alloc)
             /\ nils[1].a + d - 1 < Len(allocs'[1].reg_alloc)
             /\ NilRegisters(nils[1]) = nils[1].a..(nils[1].a + d - 1)
    ]_vars

\* the comparisons and variable predicates of predicate e, reached through
\* and, or, not
RECURSIVE Leaves(_)
Leaves(e) ==
    CASE e.k = "BinOp" /\ e.flag \in {"OR", "AND"} -> Leaves(e.left) \cup Leaves(e.right)
      [] e.k = "BinOp" /\ e.flag \in CmpFlags -> {e}
      [] e.k = "UnaryOp" /\ e.flag = "Not" -> Leaves(e.left)
      [] e.k = "Var" -> {e}
      [] OTHER -> {}

\* e is lowered by visit_logic_arith
IsPredicate(e) ==
    \/ e.k = "BinOp" /\ e.flag \in CmpFlags \cup {"OR", "AND"}
    \/ e.k = "UnaryOp" /\ e.flag = "Not"

\* a variable predicate, or a comparison whose operands are not predicates
\* themselves (their code holds no JMP)
PlainLeaf(e) == e.k = "Var" \/ (~IsPredicate(e.left) /\ ~IsPredicate(e.right))

\* the label of the JMP that ends the raw stream of leaf predicate e,
\* lowered in generator cg with these labels and this fall_through
LeafJump(cg, e, true_br, false_br, fall_through) ==
    LET raw == visit_boolean_expr(cg, e, true_br, false_br, fall_through).ins IN
    IF raw # <<>> /\ raw[Len(raw)].op = "JMP" THEN raw[Len(raw)].b ELSE -1

\* the index in stream new of the instruction the JMP at index i leads to
JumpTarget(new, i) == i + 1 + new[i].b

\* the indices of the JMPs of new
Jumps(new) == {i \in 1..Len(new) : new[i].op = "JMP"}

NilValue == [t |-> "nil", v |-> 0]
BoolValue(b) == [t |-> "bool", v |-> IF b THEN 1 ELSE 0]
NumValue(n) == [t |-> "num", v |-> n]
Truthy(x) == ~(x = NilValue \/ x = BoolValue(FALSE))

\* the outcome of the comparison instruction op on two values
Compare(op, x, y) ==
    CASE op = "EQ" -> x = y
      [] op = "LT" -> x.v < y.v
      [] op = "LE" -> x.v <= y.v

\* the register file after running code from index i (1-based) on register
\* file R with constants pool and globals G; fuel bounds the steps.
\* LT/LE/EQ A B C: the JMP that follows is taken if the outcome is A, else
\* skipped; TEST A C: the JMP that follows is taken if R(A) is true and
\* C = 1 or R(A) is false and C = 0, else skipped (C is the low field of
\* the Bx the compiler emits); JMP sBx: pc += sBx; LOADBOOL A B C:
\* R(A) := B, skip the next instruction if C
RECURSIVE Exec(_, _, _, _, _, _)
Exec(code, i, R, pool, G, fuel) ==
    IF i > Len(code) \/ i < 1 \/ fuel = 0 THEN R
    ELSE LET x == code[i] IN
         CASE x.op = "LOADK" ->
                Exec(code, i + 1, [R EXCEPT ![x.a] = NumValue(pool[x.b + 1].num)],
                     pool, G, fuel - 1)
           [] x.op = "LOADBOOL" ->
                Exec(code, IF x.c # 0 THEN i + 2 ELSE i + 1,
                     [R EXCEPT ![x.a] = BoolValue(x.b # 0)], pool, G, fuel - 1)
           [] x.op = "GETGLOBAL" ->
                Exec(code, i + 1, [R EXCEPT ![x.a] = G[pool[x.b + 1].str]],
                     pool, G, fuel - 1)
           [] x.op = "MOVE" ->
                Exec(code, i + 1, [R EXCEPT ![x.a] = R[x.b]], pool, G, fuel - 1)
           [] x.op \in {"LT", "LE", "EQ"} ->
                Exec(code,
                     IF Compare(x.op, R[x.b], R[x.c]) = (x.a = 1) THEN i + 1 ELSE i + 2,
                     R, pool, G, fuel - 1)
           [] x.op = "TEST" ->
                Exec(code, IF Truthy(R[x.a]) = (x.b = 1) THEN i + 1 ELSE i + 2,
                     R, pool, G, fuel - 1)
           [] x.op = "JMP" -> Exec(code, i + 1 + x.b, R, pool, G, fuel - 1)
           [] OTHER -> Exec(code, i + 1, R, pool, G, fuel - 1)

\* ---- the value of an expression under short-circuit evaluation, val the
\* values of the variables
RECURSIVE Holds(_, _)
RECURSIVE ValueOf(_, _)
ValueOf(e, val) ==
    CASE e.k = "Num" -> NumValue(e.num)
      [] e.k = "Boole" -> BoolValue(e.bool)
      [] e.k = "Var" -> val[e.var.name]
      [] OTHER -> BoolValue(Holds(e, val))

Holds(e, val) ==
    CASE e.k = "Boole" -> e.bool
      [] e.k = "Var" -> Truthy(val[e.var.name])
      [] e.k = "UnaryOp" -> ~Holds(e.left, val)
      [] e.flag = "AND" -> Holds(e.left, val) /\ Holds(e.right, val)
      [] e.flag = "OR" -> Holds(e.left, val) \/ Holds(e.right, val)
      [] e.flag = "LESS" -> ValueOf(e.left, val).v < ValueOf(e.right, val).v
      [] e.flag = "LEQ" -> ValueOf(e.left, val).v <= ValueOf(e.right, val).v
      [] e.flag = "GREATER" -> ValueOf(e.left, val).v > ValueOf(e.right, val).v
      [] e.flag = "GEQ" -> ValueOf(e.left, val).v >= ValueOf(e.right, val).v
      [] e.flag = "EQ" -> ValueOf(e.left, val) = ValueOf(e.right, val)
      [] e.flag = "NEQ" -> ValueOf(e.left, val) # ValueOf(e.right, val)

\* the values the variables may have: booleans
Valuations == [{"a", "b"} -> {BoolValue(TRUE), BoolValue(FALSE)}]

\* the register file before the statement: a register bound to a variable
\* holds the value of the variable, the others nil
RegisterFile(regs, size, val) ==
    [r \in 0..size |->
        IF r < Len(regs) /\ regs[r + 1] \in DOMAIN val THEN val[regs[r + 1]]
        ELSE NilValue]

\* the result register after running the code of `local c = e`
Result(before, after, code, c, val) ==
    Exec(code, 1,
         RegisterFile(before.reg_alloc, Len(after.reg_alloc) + Len(code), val),
         after.const_alloc, val, Len(code) + 1)[c]

\* C25: for every predicate e of the universe and every assignment of truth
\* values to its variables, running the code emitted for `local c = e`
\* under Lua 5.1 leaves in the register of c the boolean that e has under
\* short-circuit evaluation
C25_TruthValue ==
    [][(pc = "block" /\ pc' = "block" /\ unit' # unit) =>
         LET stat == unit'[Len(unit')]
             new == Emitted(instructions, instructions') IN
         (stat.k = "AssignLocal" /\ Len(stat.exprs) = 1 /\ IsPredicate(stat.exprs[1])) =>
             \A val \in Valuations :
                Result(allocs[1], allocs'[1], new,
                       symbol_table'.frames[1][stat.names[1]], val)
                  = BoolValue(Holds(stat.exprs[1], val))
    ]_vars

\* C26: in a call whose arguments before the last are literals or names
\* (one instruction each, into func_pos + i) and whose last argument is
\* any expression but a call, the register func_pos + i of every earlier
\* argument is written exactly once before the CALL: no instruction of a
\* later argument, the temporaries of a compound one included, writes it
C26_ArgumentsKept ==
    [][(pc = "block" /\ pc' = "block" /\ unit' # unit) =>
         LET stat == unit'[Len(unit')]
             x == stat.exprs[1]
             new == Emitted(instructions, instructions') IN
         (/\ Len(stat.exprs) = 1 /\ x.k = "FunctionCall" /\ x.expr.k = "Var"
          /\ Len(x.args) >= 2
          /\ \A i \in 1..(Len(x.args) - 1) : x.args[i].k \in {"Num", "Boole", "Var"}
          /\ x.args[Len(x.args)].k # "FunctionCall") =>
             \E call \in 1..Len(new) :
                 /\ new[call].op = "CALL"
                 /\ \A i \in 1..(Len(x.args) - 1) :
                       Cardinality({j \in 1..(call - 1) :
                                       Writes(new[j], new[call].a + i)}) = 1
    ]_vars

\* name is a local of the root function in symbol table st
IsLocal(st, name) == lookup(st, name).scope = "Local"

\* C27: an assignment whose targets and right-hand sides are all locals
\* (`a, b = b, a`) reads every right-hand value before it overwrites a
\* target: run under Lua 5.1 from a register file in which every register
\* holds a value of its own, the emitted code leaves in the register of
\* target i the value the register of expression i held before
C27_ParallelAssign ==
    [][(pc = "block" /\ pc' = "block" /\ unit' # unit) =>
         LET stat == unit'[Len(unit')]
             new == Emitted(instructions, instructions') IN
         (/\ stat.k = "Assign" /\ Len(stat.vars) = Len(stat.exprs)
          /\ \A i \in 1..Len(stat.vars) :
                /\ IsLocal(symbol_table, stat.vars[i].name)
                /\ stat.exprs[i].k = "Var"
                /\ IsLocal(symbol_table, stat.exprs[i].var.name)) =>
             LET size == Len(allocs'[1].reg_alloc) + Len(new)
                 before == [r \in 0..size |-> NumValue(r)]
                 after == Exec(new, 1, before, allocs'[1].const_alloc,
                               [n \in {"a", "b"} |-> NilValue], Len(new) + 1) IN
             \A i \in 1..Len(stat.vars) :
                 after[lookup(symbol_table, stat.vars[i].name).pos]
                   = before[lookup(symbol_table, stat.exprs[i].var.name).pos]
    ]_vars

\* C28: in `local x = p == c`, p a comparison (`(a < b) == c`), the JMP of
\* the inner comparison, resolved by the inner visit_logic_arith, is the
\* same after the outer label resolution and leads to the inner
\* true-materializer, the second LOADBOOL of the inner pair; the JMP of the
\* outer comparison leads to the outer true-materializer
C28_InnerJumpsKept ==
    [][(pc = "block" /\ pc' = "block" /\ unit' # unit) =>
         LET stat == unit'[Len(unit')]
             e == stat.exprs[1]
             new == Emitted(instructions, instructions') IN
         (/\ stat.k = "AssignLocal" /\ Len(stat.exprs) = 1
          /\ e.k = "BinOp" /\ e.flag \in CmpFlags
          /\ e.left.k = "BinOp" /\ e.left.flag \in CmpFlags /\ PlainLeaf(e.left)
          /\ ~IsPredicate(e.right)) =>
             LET inner == visit_expr(reg_push(CG, NoName).cg, e.left, <<>>, NoExpect).ins
                 first == CHOOSE i \in 1..Len(new) : new[i].op = "JMP"
                 last == CHOOSE i \in 1..Len(new) :
                            new[i].op = "JMP" /\ \A j \in (i + 1)..Len(new) : new[j].op # "JMP" IN
             /\ Cardinality(Jumps(new)) = 2
             /\ SubSeq(new, 1, Len(inner)) = inner
             /\ new[first + 1].op = "LOADBOOL" /\ new[first + 2].op = "LOADBOOL"
             /\ JumpTarget(new, first) = first + 2
             /\ JumpTarget(new, last) = Len(new)
    ]_vars

\* C29: the chunk a compile leaves in root_function is the chunk that a
\* CodeGen made by new() produces for the same unit, whatever the CodeGen
\* has compiled before: earlier units change neither name resolution nor
\* code
FreshChunk(stats, r) ==
    visit_function([symbol_table |-> NewSymbolTable("Global"), allocs |-> <<>>,
                    err |-> "ok", failed |-> NoFailure],
                   Block(stats, r.has_ret, r.ret), <<>>, TRUE).prototype

C29_CompileDependsOnAst ==
    [][(pc = "block" /\ pc' = "returned" /\ result' = "Ok") =>
         root_function' = FreshChunk(unit', ret')]_vars

\* the registers of the function under compilation that carry a name: those
\* its frame of the symbol table maps a parameter or local to, and those
\* the register allocator records a name for
Named(cg) ==
    LET frame == cg.symbol_table.frames[Len(cg.symbol_table.frames)]
        regs == Cur(cg).reg_alloc IN
    {frame[n] : n \in DOMAIN frame} \cup {i - 1 : i \in {j \in 1..Len(regs) : regs[j] # NoName}}

\* a statement visited from the generator cg keeps temporaries and names
\* apart: no register that visit_exprlist returns with is_temp = true
\* carries a name, and a local declaration binds its names to registers
\* that carried no name before it, one register per name
KeepsApart(cg, stat) ==
    LET adj == adjust_list(cg, stat.names, stat.exprs, <<>>)
        lst == visit_exprlist(adj.cg, adj.exprlist, adj.ins)
        done == visit_stat(cg, stat, <<>>).cg
        frame == done.symbol_table.frames[Len(done.symbol_table.frames)] IN
    /\ lst.cg.err = "ok" /\ done.err = "ok"
    /\ \A i \in 1..Len(lst.reg_list) :
          lst.reg_list[i].temp => lst.reg_list[i].reg \notin Named(lst.cg)
    /\ \A i \in 1..Len(stat.names) :
          /\ frame[stat.names[i]] \notin Named(cg)
          /\ frame[stat.names[i]] < reg_size(done)
          /\ \A j \in 1..(i - 1) : frame[stat.names[j]] # frame[stat.names[i]]

\* C30: a local declaration of the root block binds each of its names to a
\* register bound to no earlier local, and no register returned with
\* is_temp = true is bound to a local; when the declared value is a function
\* with parameters whose body starts with a local declaration, the same
\* holds inside that function, its parameters included
C30_TempsAndLocals ==
    [][(pc = "block" /\ pc' = "block" /\ unit' # unit) =>
         LET stat == unit'[Len(unit')] IN
         stat.k = "AssignLocal" =>
             /\ KeepsApart(CG, stat)
             /\ \A i \in 1..Len(stat.names) :
                   /\ symbol_table'.frames[1][stat.names[i]] \notin Named(CG)
                   /\ allocs'[1].reg_alloc[symbol_table'.frames[1][stat.names[i]] + 1]
                        = stat.names[i]
             /\ \A i \in 1..Len(stat.exprs) :
                   LET e == stat.exprs[i] IN
                   (/\ e.k = "FunctionDef" /\ Len(e.paras) > 0
                    /\ Len(e.body.stats) > 0 /\ e.body.stats[1].k = "AssignLocal") =>
                       LET entered == enter_function(
                                          [CG EXCEPT !.symbol_table = initialize_scope(@)],
                                          e.paras) IN
                       /\ Named(entered) = 0..(Len(e.paras) - 1)
                       /\ KeepsApart(entered, e.body.stats[1])
    ]_vars

\* after local a = function(p) local c = p < a ... end, the declaration
\* local b, a = a, 1 has read the local a, renamed the register of 1 to a and
\* given b a register of its own
C30_Witness ==
    /\ pc = "block" /\ Len(unit) = 2
    /\ unit[1] = AssignLocal(<<"a">>, <<Outer>>)
    /\ unit[2] = AssignLocal(<<"b", "a">>, <<Name("a"), Num(1)>>)
    /\ DOMAIN symbol_table.frames[1] = {"a", "b"}
    /\ symbol_table.frames[1]["a"] # symbol_table.frames[1]["b"]
    /\ allocs[1].reg_alloc = <<"a", "a", "b">>

====
